---- MODULE Spec2Model ----
(***************************************************************************)
(* FaceBlur: the job lifecycle (submit, worker, fetch), the artifact store *)
(* and the Reaper (TTL sweep) of face_blur, as a state machine.            *)
(*                                                                         *)
(* Processes.  The API process runs one asyncio event loop: the request    *)
(* handlers of api/routes.py and the cleanup task of storage/cleanup.py    *)
(* (created in api/app.py lifespan) share it, so code between two awaits   *)
(* of a handler is atomic with respect to the other handlers and to a      *)
(* sweep, and a sweep (which never awaits) is atomic with respect to the   *)
(* handlers.  The Taskiq workers are separate processes: every filesystem  *)
(* call of a worker interleaves with every filesystem call of a sweep.     *)
(* The result backend keeps a result once it is stored.                    *)
(***************************************************************************)
EXTENDS Integers, Sequences, FiniteSets, TLC

VARIABLES
    dirs,      \* directories that exist (paths; <<>> is the storage root)
    files,     \* existing files: path -> [age, data]
    tmp,       \* temporary files of the API process (outside the store)
    results,   \* result backend: job id -> [kind, value]
    job,       \* job id -> the task message and the worker's locals
    fetch,     \* fetch request slot -> the handler's position and locals
    stats,     \* stats table: counter name -> value
    reaper,    \* the cleanup task: position and the locals of a sweep
    stop,      \* stop_event of the lifespan
    resp,      \* response of the last submit request
    out,       \* response of the last fetch request, and the request it answers
    pre,       \* the store as the running (or last) sweep found it
    hist,      \* history of the requests: fetches begun and served, last submit
    visitors,  \* visitors table of the stats database: the visitor ids recorded
    merge,     \* a run of _merge_overlaps: the pool of boxes and what it returned
    life,      \* the lifespan of the application: up, stopping, down or failed
    frame      \* a run of apply_blur: the frame, its boxes and the pixels changed

vars == <<dirs, files, tmp, results, job, fetch, stats, reaper, stop, resp,
          out, pre, hist, visitors, merge, life, frame>>

\* the state the workers, the sweep and the job endpoints never touch
other == <<visitors, merge, life, frame>>

----------------------------------------------------------------------------
(* Bounds of the model *)

MaxJobs == 1
MaxFetch == 2
MaxFrames == 2
MaxRequests == 1
TtlTicks == 1
MaxUploadFiles == 2

(* Program constants *)

DefaultFps == 24
VideoMaxFps == 20
VideoDetectEveryN == 4
MaxVideoSeconds == 60

JobIds == 1..MaxJobs
Fetchers == 1..MaxFetch

VideoPreserveAudio == TRUE
VideoTranscodeH264 == TRUE

AllowedExtensions == {"jpg", "jpeg", "png"}
AllowedVideoExtensions == {"mp4", "webm", "mov", "mkv"}

----------------------------------------------------------------------------
(* services/blur_service.py: _merge_overlaps *)

NoMerge == [pc |-> "idle", pool |-> <<>>, once |-> <<>>, twice |-> <<>>]

\* a detection [x, y, w, h]
Box(x, y, w, h) == [x |-> x, y |-> y, w |-> w, h |-> h]

\* overlap_thresh = 0.2, as a ratio
OverlapThresh == [num |-> 1, den |-> 5]

Least(a, b) == IF a <= b THEN a ELSE b

Greatest(a, b) == IF a >= b THEN a ELSE b

\* areas = (x2 - x1 + 1) * (y2 - y1 + 1) with x2 = x1 + w and y2 = y1 + h
Area(b) == (b.w + 1) * (b.h + 1)

\* w * h of the intersection: np.maximum(0.0, xx2 - xx1 + 1) on both axes
Intersection(a, b) ==
    Greatest(0, Least(a.x + a.w, b.x + b.w) - Greatest(a.x, b.x) + 1)
    * Greatest(0, Least(a.y + a.h, b.y + b.h) - Greatest(a.y, b.y) + 1)

\* overlap computed against the area of the box picked, not of the box tested
KeptByPickedArea(picked, box) ==
    Intersection(picked, box) * OverlapThresh.den <= OverlapThresh.num * Area(picked)

\* overlap <= overlap_thresh for the box picked and a box still in order,
\* overlap = (w * h) / areas[order[1:]]
Kept(picked, box) ==
    Intersection(picked, box) * OverlapThresh.den <= OverlapThresh.num * Area(box)

\* areas.argsort()[::-1]: the indices by descending area; argsort's default sort is
\* not stable, so boxes of equal area come in any order
Orders(boxes) ==
    {order \in [1..Len(boxes) -> 1..Len(boxes)] :
        /\ \A i, k \in 1..Len(boxes) : i # k => order[i] # order[k]
        /\ \A i, k \in 1..Len(boxes) :
            i < k => Area(boxes[order[i]]) >= Area(boxes[order[k]])}

\* the while loop: pick order[0], keep of order[1:] what overlaps it little enough
RECURSIVE Pick(_, _)
Pick(boxes, order) ==
    IF order = <<>> THEN <<>>
    ELSE LET i == Head(order)
             Keep(k) == Kept(boxes[i], boxes[k])
         IN  <<i>> \o Pick(boxes, SelectSeq(Tail(order), Keep))

\* the boxes returned as corners [x1, y1, x2, y2]
ToListCorners(boxes, picked) ==
    [n \in 1..Len(picked) |->
        Box(boxes[picked[n]].x, boxes[picked[n]].y,
            boxes[picked[n]].x + boxes[picked[n]].w,
            boxes[picked[n]].y + boxes[picked[n]].h)]

\* boxes[picked].astype(int).tolist()
ToList(boxes, picked) == [n \in 1..Len(picked) |-> boxes[picked[n]]]

\* the lists _merge_overlaps(boxes) may return, one for each order argsort may give
_merge_overlaps(boxes) ==
    IF boxes = <<>> THEN {<<>>}
    ELSE {ToList(boxes, Pick(boxes, order)) : order \in Orders(boxes)}

\* _merge_overlaps(boxes)
MergeOnce ==
    /\ merge.pc = "idle"
    /\ \E merged \in _merge_overlaps(merge.pool) :
        merge' = [merge EXCEPT !.pc = "once", !.once = merged]
    /\ UNCHANGED <<dirs, files, tmp, results, job, fetch, stats, reaper, stop, resp, out, pre,
                   hist, visitors, life, frame>>

\* _merge_overlaps on the list the first call returned
MergeTwice ==
    /\ merge.pc = "once"
    /\ \E merged \in _merge_overlaps(merge.once) :
        merge' = [merge EXCEPT !.pc = "twice", !.twice = merged]
    /\ UNCHANGED <<dirs, files, tmp, results, job, fetch, stats, reaper, stop, resp, out, pre,
                   hist, visitors, life, frame>>

----------------------------------------------------------------------------
(* services/blur_service.py: apply_blur and _apply_pixelated_ellipse *)

\* a run of apply_blur: the frame's size, the boxes, the loop's position and
\* the pixels of the frame whose value no longer is the source's
NoFrame == [pc |-> "idle", width |-> 0, height |-> 0, faces |-> <<>>, idx |-> 0,
            changed |-> {}]

\* int(side * 0.2), int(w * 0.52), int(h * 0.62) of a side that is not negative
Scaled(side, percent) == (side * percent) \div 100

\* the pixels of a frame, each a column and a row
Pixels(width, height) == (0..(width - 1)) \X (0..(height - 1))

\* roi = img[y : y + h, x : x + w]: the slice stops at the frame's edges
Roi(width, height, x, y, w, h) ==
    {p \in Pixels(width, height) : /\ p[1] >= x /\ p[1] < x + w
                                   /\ p[2] >= y /\ p[2] < y + h}

\* the filled ellipse drawn into the mask of h rows and w columns, centred at
\* (w // 2, h // 2) with the axes max(1, int(w * 0.52)) and max(1, int(h * 0.62))
Mask(x, y, w, h) ==
    LET cx == w \div 2
        cy == h \div 2
        ax == Greatest(1, Scaled(w, 52))
        ay == Greatest(1, Scaled(h, 62))
    IN  {p \in (x..(x + w - 1)) \X (y..(y + h - 1)) :
            (p[1] - x - cx) * (p[1] - x - cx) * ay * ay
              + (p[2] - y - cy) * (p[2] - y - cy) * ax * ax <= ax * ax * ay * ay}

\* the pixels _apply_pixelated_ellipse replaces with the pixelated region: none
\* for an empty slice; a slice of one pixel is pixelated to itself
_apply_pixelated_ellipse(width, height, x, y, w, h) ==
    LET roi == Roi(width, height, x, y, w, h)
    IN  IF Cardinality(roi) <= 1 THEN {} ELSE roi \cap Mask(x, y, w, h)

\* one turn of apply_blur's loop: the box padded by a fifth of its sides,
\* clamped to the frame, and never narrower or lower than one pixel
BlurBox(width, height, box) ==
    LET pad_x == Scaled(box.w, 20)
        pad_y == Scaled(box.h, 20)
        x0 == Greatest(0, box.x - pad_x)
        y0 == Greatest(0, box.y - pad_y)
        x1 == Least(width, box.x + box.w + pad_x)
        y1 == Least(height, box.y + box.h + pad_y)
        adjusted_w == Greatest(1, x1 - x0)
        adjusted_h == Greatest(1, y1 - y0)
    IN  _apply_pixelated_ellipse(width, height, x0, y0, adjusted_w, adjusted_h)

\* apply_blur is entered: a frame without faces is returned as it is
ApplyBlurEnter ==
    /\ frame.pc = "idle"
    /\ frame.width > 0
    /\ frame' = [frame EXCEPT !.pc = IF frame.faces = <<>> THEN "done" ELSE "loop",
                              !.idx = 1]
    /\ UNCHANGED <<dirs, files, tmp, results, job, fetch, stats, reaper, stop, resp, out, pre,
                   hist, visitors, merge, life>>

\* for x, y, w, h in faces
ApplyBlurFace ==
    /\ frame.pc = "loop"
    /\ frame.idx <= Len(frame.faces)
    /\ frame' = [frame EXCEPT !.idx = @ + 1,
                              !.changed = @ \cup BlurBox(frame.width, frame.height,
                                                         frame.faces[frame.idx])]
    /\ UNCHANGED <<dirs, files, tmp, results, job, fetch, stats, reaper, stop, resp, out, pre,
                   hist, visitors, merge, life>>

\* return img
ApplyBlurReturn ==
    /\ frame.pc = "loop"
    /\ frame.idx > Len(frame.faces)
    /\ frame' = [frame EXCEPT !.pc = "done"]
    /\ UNCHANGED <<dirs, files, tmp, results, job, fetch, stats, reaper, stop, resp, out, pre,
                   hist, visitors, merge, life>>

----------------------------------------------------------------------------
(* Paths and the filesystem *)

Root == <<>>

Parent(p) == SubSeq(p, 1, Len(p) - 1)

\* uuid4().hex of the job's task directory: a fresh name per task
DirNames == <<"d1", "d2", "d3", "d4">>

\* names in the order Python compares them, for sorted(paths)
NameOrder ==
    <<"a.mp4", "a_blurred.jpg", "a_blurred.mp4", "a_blurred.video.mp4",
      "b.mp4", "b_blurred.jpg", "b_blurred.mp4", "b_blurred.video.mp4",
      "c.mkv", "c_blurred.mp4", "c_blurred.video.mp4",
      "d1", "d2", "d3", "d4", "new.jpg", "old.jpg", "sub">>

NameRank(n) == CHOOSE i \in 1..Len(NameOrder) : NameOrder[i] = n

\* pathlib's order of two paths: lexicographic on their parts
PathLt(p, q) ==
    \E i \in 1..(Len(q)) :
        /\ \A k \in 1..(i - 1) : k <= Len(p) /\ p[k] = q[k]
        /\ \/ i = Len(p) + 1
           \/ i <= Len(p) /\ NameRank(p[i]) < NameRank(q[i])

\* sorted(paths) without reverse=True: parents before their children
RECURSIVE SortedForward(_)
SortedForward(S) ==
    IF S = {} THEN <<>>
    ELSE LET m == CHOOSE x \in S : \A y \in S \ {x} : PathLt(x, y)
         IN  <<m>> \o SortedForward(S \ {m})

RECURSIVE SortedReverse(_)
SortedReverse(S) ==
    IF S = {} THEN <<>>
    ELSE LET m == CHOOSE x \in S : \A y \in S \ {x} : PathLt(y, x)
         IN  <<m>> \o SortedReverse(S \ {m})

IsFile(fl, p) == p \in DOMAIN fl

Children(ds, fl, d) ==
    {p \in ds \cup DOMAIN fl : Len(p) = Len(d) + 1 /\ Parent(p) = d}

Prefixes(p) == {SubSeq(p, 1, k) : k \in 0..Len(p)}

\* path.mkdir(parents=True, exist_ok=True)
ensure_dir(ds, p) == ds \cup Prefixes(p)

Drop(fl, p) == [q \in DOMAIN fl \ {p} |-> fl[q]]

Put(fl, p, data) ==
    [q \in DOMAIN fl \cup {p} |-> IF q = p THEN [age |-> 0, data |-> data] ELSE fl[q]]

\* the exception path.unlink() raises
UnlinkError(fl, p) == IF p \in DOMAIN fl THEN "none" ELSE "FileNotFoundError"

\* the exception path.rmdir() raises
RmdirError(ds, fl, d) ==
    IF d \notin ds THEN "FileNotFoundError"
    ELSE IF Children(ds, fl, d) # {} THEN "OSError" ELSE "none"

\* except OSError also catches its subclass FileNotFoundError
Catches(handler, exc) ==
    \/ exc = handler
    \/ handler = "OSError" /\ exc = "FileNotFoundError"

----------------------------------------------------------------------------
(* storage/cleanup.py: the sweep, one filesystem call per step *)

StorageCleanupIntervalMinutes == 30

\* the cleanup task between two sweeps, under the default settings
ReaperIdle == [pc |-> "wait", todo |-> {}, cur |-> <<>>, removed |-> 0,
               left |-> <<>>, expired |-> {}, error |-> "none",
               interval |-> StorageCleanupIntervalMinutes * 60]

\* lifespan creating the cleanup task whatever the interval is
lifespan_start_always(minutes) == [ReaperIdle EXCEPT !.interval = minutes * 60]

\* lifespan before yield: the cleanup task is created only for an interval > 0;
\* pc "off" stands for app.state holding no cleanup_task
lifespan_start(minutes) ==
    IF minutes > 0
    THEN [ReaperIdle EXCEPT !.interval = minutes * 60]
    ELSE [ReaperIdle EXCEPT !.pc = "off", !.interval = 0]

\* cleanup_loop at asyncio.wait_for(stop_event.wait(), timeout=interval_seconds)
Waiting == [ReaperIdle EXCEPT !.interval = reaper.interval]

\* age > ttl_seconds in place of age >= ttl_seconds
ExpiredAfterTtl(fl) == {p \in DOMAIN fl : fl[p].age > TtlTicks}

Expired(fl) == {p \in DOMAIN fl : fl[p].age >= TtlTicks}

\* path.unlink() in purge_old_files without the except FileNotFoundError
PurgeUnlinkUnhandled == "none"

\* handler of the try around path.unlink() in purge_old_files
PurgeUnlinkHandler == "FileNotFoundError"

\* handler of the try around path.rmdir() in purge_old_files
PurgeRmdirHandler == "OSError"

\* while not stop_event.is_set(): purge_old_files(...) up to now = time.time()
SweepStart ==
    /\ reaper.pc = "wait"
    /\ ~stop
    /\ pre' = [files |-> files, dirs |-> dirs]
    /\ IF Root \notin dirs
       THEN reaper' = [Waiting EXCEPT !.removed = 0]
       ELSE reaper' = [Waiting EXCEPT !.pc = "walk",
                                         !.todo = DOMAIN files,
                                         !.expired = Expired(files)]
    /\ UNCHANGED <<dirs, files, tmp, results, job, fetch, stats, stop, resp, out, hist, other>>

\* for path in storage_dir.rglob("*"): if not path.is_file(): continue
\* (a directory the walk yields is skipped here: only the files are listed)
SweepIsFile ==
    /\ reaper.pc = "walk"
    /\ \E p \in reaper.todo :
        reaper' = [reaper EXCEPT !.todo = @ \ {p},
                                 !.cur = p,
                                 !.pc = IF IsFile(files, p) THEN "stat" ELSE "walk"]
    /\ UNCHANGED <<dirs, files, tmp, results, job, fetch, stats, stop, resp, out, pre, hist, other>>

\* if age < ttl_seconds in place of if age >= ttl_seconds
SweepStatYoung ==
    /\ reaper.pc = "stat"
    /\ reaper' = IF ~IsFile(files, reaper.cur)
                 THEN [reaper EXCEPT !.pc = "crashed", !.error = "stat:FileNotFoundError"]
                 ELSE IF reaper.cur \notin reaper.expired
                      THEN [reaper EXCEPT !.pc = "unlink"]
                      ELSE [reaper EXCEPT !.pc = "walk"]
    /\ UNCHANGED <<dirs, files, tmp, results, job, fetch, stats, stop, resp, out, pre, hist, other>>

\* age = now - path.stat().st_mtime; if age >= ttl_seconds
SweepStat ==
    /\ reaper.pc = "stat"
    /\ reaper' = IF ~IsFile(files, reaper.cur)
                 THEN [reaper EXCEPT !.pc = "crashed", !.error = "stat:FileNotFoundError"]
                 ELSE IF reaper.cur \in reaper.expired
                      THEN [reaper EXCEPT !.pc = "unlink"]
                      ELSE [reaper EXCEPT !.pc = "walk"]
    /\ UNCHANGED <<dirs, files, tmp, results, job, fetch, stats, stop, resp, out, pre, hist, other>>

\* try: path.unlink(); removed += 1  except FileNotFoundError: continue
SweepUnlink ==
    /\ reaper.pc = "unlink"
    /\ LET exc == UnlinkError(files, reaper.cur)
       IN  IF exc = "none"
           THEN /\ files' = Drop(files, reaper.cur)
                /\ reaper' = [reaper EXCEPT !.pc = "walk", !.removed = @ + 1]
           ELSE /\ files' = files
                /\ reaper' = IF Catches(PurgeUnlinkHandler, exc)
                             THEN [reaper EXCEPT !.pc = "walk"]
                             ELSE [reaper EXCEPT !.pc = "crashed",
                                                 !.error = "unlink:" \o exc]
    /\ UNCHANGED <<dirs, tmp, results, job, fetch, stats, stop, resp, out, pre, hist, other>>

\* for path in sorted(storage_dir.rglob("*"), reverse=True)
SweepListDirs ==
    /\ reaper.pc = "walk"
    /\ reaper.todo = {}
    /\ reaper' = [reaper EXCEPT !.pc = "dirs",
                                !.left = SortedReverse(DOMAIN files \cup (dirs \ {Root}))]
    /\ UNCHANGED <<dirs, files, tmp, results, job, fetch, stats, stop, resp, out, pre, hist, other>>

\* if path.is_dir(): try: path.rmdir() except OSError: continue
SweepRmdir ==
    /\ reaper.pc = "dirs"
    /\ reaper.left # <<>>
    /\ LET d == Head(reaper.left)
           exc == RmdirError(dirs, files, d)
       IN  IF d \notin dirs
           THEN /\ dirs' = dirs
                /\ reaper' = [reaper EXCEPT !.left = Tail(@)]
           ELSE IF exc = "none"
                THEN /\ dirs' = dirs \ {d}
                     /\ reaper' = [reaper EXCEPT !.left = Tail(@)]
                ELSE /\ dirs' = dirs
                     /\ reaper' = IF Catches(PurgeRmdirHandler, exc)
                                  THEN [reaper EXCEPT !.left = Tail(@)]
                                  ELSE [reaper EXCEPT !.pc = "crashed",
                                                      !.error = "rmdir:" \o exc]
    /\ UNCHANGED <<files, tmp, results, job, fetch, stats, stop, resp, out, pre, hist, other>>

NoStore == [files |-> <<>>, dirs |-> {}]

\* return removed; then the loop waits for the interval or the stop event
SweepReturn ==
    /\ reaper.pc = "dirs"
    /\ reaper.left = <<>>
    /\ reaper' = Waiting
    /\ pre' = NoStore
    /\ UNCHANGED <<dirs, files, tmp, results, job, fetch, stats, stop, resp, out, hist, other>>

\* the loop condition once stop_event is set
ReaperExit ==
    /\ reaper.pc = "wait"
    /\ stop
    /\ reaper' = [reaper EXCEPT !.pc = "exited"]
    /\ UNCHANGED <<dirs, files, tmp, results, job, fetch, stats, stop, resp, out, pre, hist, other>>

Sweeping == reaper.pc \in {"walk", "stat", "unlink", "dirs"}

\* time passes: every file grows older (ages at or beyond the TTL are alike)
Tick ==
    /\ files' = [p \in DOMAIN files |->
                    [files[p] EXCEPT !.age = IF @ < TtlTicks THEN @ + 1 ELSE @]]
    /\ UNCHANGED <<dirs, tmp, results, job, fetch, stats, reaper, stop, resp, out, pre, hist, other>>

----------------------------------------------------------------------------
(* workers/tasks.py: the task functions, one filesystem call per step *)

NoName == [stem |-> "", ext |-> ""]

\* str of a filename; Path(filename).name
NameOf(fn) == IF fn.ext = "" THEN fn.stem ELSE fn.stem \o "." \o fn.ext

b64encode(raw) == <<"b64", raw>>

b64decode(text) == text[2]

IndexText(i) == ToString(i)

_safe_output_name(filename, index) ==
    IF filename # NoName
    THEN filename.stem \o "_blurred.jpg"
    ELSE "blurred_" \o IndexText(index) \o ".jpg"

_safe_video_output_name(filename) ==
    IF filename # NoName
    THEN filename.stem \o "_blurred.mp4"
    ELSE "blurred_video.mp4"

\* output_path.with_suffix(".video.mp4")
TempOutputName(filename) ==
    IF filename # NoName
    THEN filename.stem \o "_blurred.video.mp4"
    ELSE "blurred_video.video.mp4"

\* item.get("filename") or ""
_decode_payload_item(item) == [raw |-> b64decode(item.data), filename |-> item.filename]

\* Path(settings.storage_dir) / uuid.uuid4().hex
TaskDirShared(j) == <<DirNames[1]>>

TaskDir(j) == <<DirNames[j]>>

\* the JPEG process_image_blur returns for decodable bytes
process_image_blur(raw) == [kind |-> "jpeg", src |-> raw.tag, frames |-> 0, audio |-> FALSE]

\* a video file: what it was made from, its frames, and whether it carries the
\* source's audio and an H.264 stream
VideoData(raw, frames, audio, h264) ==
    [kind |-> "mp4", src |-> raw.tag, frames |-> frames, audio |-> audio, h264 |-> h264]

UploadData(raw) == [kind |-> "upload", src |-> raw.tag, frames |-> raw.nframes, audio |-> TRUE]

NoResult == [kind |-> "none", value |-> <<>>, error |-> ""]

OkResult(v) == [kind |-> "ok", value |-> v, error |-> ""]

ErrResult(e) == [kind |-> "err", value |-> <<>>, error |-> e]

\* settings.video_preserve_audio and settings.video_transcode_h264 of the worker,
\* with settings.video_max_fps and settings.video_detect_every_n as configured
VideoOptions(preserve_audio, transcode_h264) ==
    [preserve_audio |-> preserve_audio, transcode_h264 |-> transcode_h264,
     max_fps |-> VideoMaxFps, detect_every_n |-> VideoDetectEveryN]

\* the worker's settings with another frame rate limit and detection interval
VideoPace(opts, max_fps, detect_every_n) ==
    [preserve_audio |-> opts.preserve_audio, transcode_h264 |-> opts.transcode_h264,
     max_fps |-> max_fps, detect_every_n |-> detect_every_n]

JobFree == [state |-> "free", kind |-> "none", items |-> <<>>, pc |-> "none",
            idx |-> 0, acc |-> <<>>, left |-> 0, frames |-> 0, stride |-> 0, fps |-> 0,
            output_fps |-> [num |-> 0, den |-> 1],
            frame_index |-> 0, last_faces |-> 0, events |-> <<>>,
            opts |-> VideoOptions(VideoPreserveAudio, VideoTranscodeH264),
            muxed |-> FALSE]

JobDone == [JobFree EXCEPT !.state = "done"]

\* the job once its task has ended: which task it was and the worker's settings
Done(j) == [JobDone EXCEPT !.kind = job[j].kind, !.opts = job[j].opts]

Item(j) == job[j].items[job[j].idx]

Decoded(j) == _decode_payload_item(Item(j))

\* a file written now is younger than the running sweep's now
Touch(p) == [reaper EXCEPT !.expired = @ \ {p}]

\* the task returned: Taskiq stores its return value under the task id
Return(j, value) ==
    /\ results' = [results EXCEPT ![j] = OkResult(value)]
    /\ job' = [job EXCEPT ![j] = Done(j)]

\* the task raised: Taskiq stores the exception as the result's error
Raise(j, error) ==
    /\ results' = [results EXCEPT ![j] = ErrResult(error)]
    /\ job' = [job EXCEPT ![j] = Done(j)]

\* a worker takes the message: task_dir = _build_task_dir()
WorkerStart(j) ==
    /\ job[j].state = "queued"
    /\ dirs' = ensure_dir(dirs, TaskDir(j))
    /\ job' = [job EXCEPT ![j].state = "running", ![j].pc = "item", ![j].idx = 1]
    /\ UNCHANGED <<files, tmp, results, fetch, stats, reaper, stop, resp, out, pre, hist, other>>

\* blur_images with a process_image_blur that lets undecodable bytes through
ImgProcessLenient(j) ==
    /\ job[j].state = "running" /\ job[j].kind = "image"
    /\ job[j].pc = "item" /\ job[j].idx <= Len(job[j].items)
    /\ dirs' = ensure_dir(dirs, TaskDir(j))
    /\ job' = [job EXCEPT ![j].pc = "write"]
    /\ results' = results
    /\ UNCHANGED <<files, tmp, fetch, stats, reaper, stop, resp, out, pre, hist, other>>

\* blur_images: process_image_blur(raw_bytes), then write_bytes up to ensure_dir
ImgProcess(j) ==
    /\ job[j].state = "running" /\ job[j].kind = "image"
    /\ job[j].pc = "item" /\ job[j].idx <= Len(job[j].items)
    /\ IF ~Decoded(j).raw.ok
       THEN /\ Raise(j, "ValueError: Could not decode image bytes")
            /\ dirs' = dirs
       ELSE /\ dirs' = ensure_dir(dirs, TaskDir(j))
            /\ job' = [job EXCEPT ![j].pc = "write"]
            /\ results' = results
    /\ UNCHANGED <<files, tmp, fetch, stats, reaper, stop, resp, out, pre, hist, other>>

ImageEntry(name, path) ==
    [type |-> "none", filename |-> name, content_type |-> "image/jpeg",
     path |-> path, duration_seconds |-> [num |-> 0, den |-> 1]]

\* blur_images: path.write_bytes(data) of write_bytes, results.append(...)
ImgWrite(j) ==
    /\ job[j].state = "running" /\ job[j].kind = "image" /\ job[j].pc = "write"
    /\ LET name == _safe_output_name(Decoded(j).filename, job[j].idx - 1)
           path == TaskDir(j) \o <<name>>
       IN  IF Parent(path) \notin dirs
           THEN /\ Raise(j, "FileNotFoundError")
                /\ UNCHANGED <<files, reaper>>
           ELSE /\ files' = Put(files, path, process_image_blur(Decoded(j).raw))
                /\ reaper' = Touch(path)
                /\ job' = [job EXCEPT ![j].pc = "item", ![j].idx = @ + 1,
                                      ![j].acc = Append(@, ImageEntry(name, path))]
                /\ results' = results
    /\ UNCHANGED <<dirs, tmp, fetch, stats, stop, resp, out, pre, hist, other>>

\* return results
TaskReturn(j) ==
    /\ job[j].state = "running"
    /\ job[j].pc = "item" /\ job[j].idx > Len(job[j].items)
    /\ Return(j, job[j].acc)
    /\ UNCHANGED <<dirs, files, tmp, fetch, stats, reaper, stop, resp, out, pre, hist, other>>

----------------------------------------------------------------------------
(* workers/tasks.py blur_videos and services/video_service.py *)

InputPath(j) == TaskDir(j) \o <<NameOf(Decoded(j).filename)>>

OutputPath(j) == TaskDir(j) \o <<_safe_video_output_name(Decoded(j).filename)>>

TempOutput(j) == TaskDir(j) \o <<TempOutputName(Decoded(j).filename)>>

\* Python's round(a / b) for positive integers: ties go to the even integer
RoundDiv(a, b) ==
    LET q == a \div b
        r == a % b
    IN  IF 2 * r < b THEN q
        ELSE IF 2 * r > b THEN q + 1
        ELSE IF q % 2 = 0 THEN q ELSE q + 1

Max(a, b) == IF a >= b THEN a ELSE b

\* fps = cap.get(CAP_PROP_FPS); if fps <= 0: fps = 24.0
SourceFps(raw) == IF raw.fps <= 0 THEN DefaultFps ELSE raw.fps

\* the stride with the quotient cut off in place of rounded
StrideCut(fps, max_fps) ==
    IF max_fps # 0 /\ fps > max_fps THEN Max(1, fps \div max_fps) ELSE 1

\* stride = 1; if max_fps and fps > max_fps: stride = max(1, round(fps / max_fps))
Stride(fps, max_fps) ==
    IF max_fps # 0 /\ fps > max_fps THEN Max(1, RoundDiv(fps, max_fps)) ELSE 1

\* output_fps = fps / stride, as the ratio it is
OutputFps(fps, stride) == [num |-> fps, den |-> stride]

\* blur_videos: write_bytes(input_path, raw_bytes) up to ensure_dir
VidProcess(j) ==
    /\ job[j].state = "running" /\ job[j].kind = "video"
    /\ job[j].pc = "item" /\ job[j].idx <= Len(job[j].items)
    /\ dirs' = ensure_dir(dirs, TaskDir(j))
    /\ job' = [job EXCEPT ![j].pc = "vinput"]
    /\ UNCHANGED <<files, tmp, results, fetch, stats, reaper, stop, resp, out, pre, hist, other>>

\* blur_videos: path.write_bytes(data) of write_bytes(input_path, raw_bytes)
VidWriteInput(j) ==
    /\ job[j].state = "running" /\ job[j].pc = "vinput"
    /\ IF Parent(InputPath(j)) \notin dirs
       THEN /\ Raise(j, "FileNotFoundError")
            /\ UNCHANGED <<files, reaper>>
       ELSE /\ files' = Put(files, InputPath(j), UploadData(Decoded(j).raw))
            /\ reaper' = Touch(InputPath(j))
            /\ job' = [job EXCEPT ![j].pc = "vopen"]
            /\ results' = results
    /\ UNCHANGED <<dirs, tmp, fetch, stats, stop, resp, out, pre, hist, other>>

\* a step of the frame loop: the kept frame it is about and the kept frame whose
\* detection set last_faces holds at that moment
Event(op, index, faces) == [op |-> op, frame |-> index, faces |-> faces]

\* last_faces = detect_faces(frame); apply_blur(frame, last_faces);
\* writer.write(frame) of the first frame, frame_index = 0
FirstFrame == <<Event("detect", 0, 0), Event("blur", 0, 0), Event("write", 0, 0)>>

\* detect_every_n = max(1, detect_every_n)
DetectEvery(detect_every_n) == Max(1, detect_every_n)

\* a frame loop that keeps the first frame's detection set for every frame
LastFacesStale(frame_index, detect_every_n, faces) == faces

\* if frame_index % detect_every_n == 0: last_faces = detect_faces(frame)
LastFaces(frame_index, detect_every_n, faces) ==
    IF frame_index % DetectEvery(detect_every_n) = 0 THEN frame_index ELSE faces

\* one pass of the loop that keeps a frame: cap.read(), frame_index += 1, the
\* detection when it is due, apply_blur(frame, last_faces), writer.write(frame)
KeptFrame(frame_index, detect_every_n, faces) ==
    LET now == LastFaces(frame_index, detect_every_n, faces)
    IN  <<Event("read", frame_index, faces)>>
        \o (IF frame_index % DetectEvery(detect_every_n) = 0
            THEN <<Event("detect", frame_index, now)>> ELSE <<>>)
        \o <<Event("blur", frame_index, now), Event("write", frame_index, now)>>

\* process_video_blur without the cap.isOpened() test: an unreadable source is
\* found out by the first cap.read()
VidOpenUnchecked(j) ==
    /\ job[j].state = "running" /\ job[j].pc = "vopen"
    /\ LET raw == Decoded(j).raw
           fps == SourceFps(raw)
       IN  IF ~IsFile(files, InputPath(j)) \/ ~raw.ok \/ raw.nframes = 0
           THEN /\ Raise(j, "ValueError: Video contains no readable frames.")
                /\ dirs' = dirs
           ELSE /\ dirs' = ensure_dir(dirs, Parent(OutputPath(j)))
                /\ job' = [job EXCEPT ![j].pc = "vwriter",
                                      ![j].left = raw.nframes - 1,
                                      ![j].fps = fps,
                                      ![j].events = <<Event("read", 0, 0)>>,
                                      ![j].stride = Stride(fps, job[j].opts.max_fps),
                                      ![j].output_fps =
                                          OutputFps(fps, Stride(fps, job[j].opts.max_fps))]
                /\ results' = results
    /\ UNCHANGED <<files, tmp, fetch, stats, reaper, stop, resp, out, pre, hist, other>>

\* process_video_blur: open the source, read the first frame, ensure_dir, stride
VidOpen(j) ==
    /\ job[j].state = "running" /\ job[j].pc = "vopen"
    /\ LET raw == Decoded(j).raw
           fps == SourceFps(raw)
       IN  IF ~IsFile(files, InputPath(j)) \/ ~raw.ok
           THEN /\ Raise(j, "ValueError: Could not open video file.")
                /\ dirs' = dirs
           ELSE IF raw.nframes = 0
           THEN /\ Raise(j, "ValueError: Video contains no readable frames.")
                /\ dirs' = dirs
           ELSE /\ dirs' = ensure_dir(dirs, Parent(OutputPath(j)))
                /\ job' = [job EXCEPT ![j].pc = "vwriter",
                                      ![j].left = raw.nframes - 1,
                                      ![j].fps = fps,
                                      ![j].events = <<Event("read", 0, 0)>>,
                                      ![j].stride = Stride(fps, job[j].opts.max_fps),
                                      ![j].output_fps =
                                          OutputFps(fps, Stride(fps, job[j].opts.max_fps))]
                /\ results' = results
    /\ UNCHANGED <<files, tmp, fetch, stats, reaper, stop, resp, out, pre, hist, other>>

\* _open_video_writer(temp_output, ...): the first codec that opens, or ValueError
VidOpenWriter(j) ==
    /\ job[j].state = "running" /\ job[j].pc = "vwriter"
    /\ \E codec_opens \in BOOLEAN :
        IF ~codec_opens \/ Parent(TempOutput(j)) \notin dirs
        THEN /\ Raise(j, "ValueError: Could not initialize video writer.")
             /\ UNCHANGED <<files, reaper>>
        ELSE /\ files' = Put(files, TempOutput(j), VideoData(Decoded(j).raw, 0, FALSE, FALSE))
             /\ reaper' = Touch(TempOutput(j))
             /\ job' = [job EXCEPT ![j].pc = "vfirst"]
             /\ results' = results
    /\ UNCHANGED <<dirs, tmp, fetch, stats, stop, resp, out, pre, hist, other>>

\* writer.write(frame) on the open file: the path, if still there, is rewritten
WriteFrame(j, n) ==
    IF IsFile(files, TempOutput(j))
    THEN /\ files' = Put(files, TempOutput(j), VideoData(Decoded(j).raw, n, FALSE, FALSE))
         /\ reaper' = Touch(TempOutput(j))
    ELSE UNCHANGED <<files, reaper>>

\* detect_faces, apply_blur, writer.write of the first frame; frames += 1
VidFirstFrame(j) ==
    /\ job[j].state = "running" /\ job[j].pc = "vfirst"
    /\ WriteFrame(j, 1)
    /\ job' = [job EXCEPT ![j].pc = "vloop", ![j].frames = 1,
                           ![j].frame_index = 0, ![j].last_faces = 0,
                           ![j].events = @ \o FirstFrame]
    /\ UNCHANGED <<dirs, tmp, results, fetch, stats, stop, resp, out, pre, hist, other>>

\* while True with continue in place of break when no frame is read
VidLoopNoBreak(j) ==
    /\ job[j].state = "running" /\ job[j].pc = "vloop"
    /\ IF job[j].left >= job[j].stride
       THEN /\ WriteFrame(j, job[j].frames + 1)
            /\ job' = [job EXCEPT
                    ![j].left = @ - job[j].stride, ![j].frames = @ + 1,
                    ![j].frame_index = @ + 1,
                    ![j].last_faces = LastFaces(job[j].frame_index + 1,
                                                job[j].opts.detect_every_n, @),
                    ![j].events = @ \o KeptFrame(job[j].frame_index + 1,
                                                 job[j].opts.detect_every_n,
                                                 job[j].last_faces)]
       ELSE /\ job' = job
            /\ UNCHANGED <<files, reaper>>
    /\ UNCHANGED <<dirs, tmp, results, fetch, stats, stop, resp, out, pre, hist, other>>

\* one pass of while True: stride - 1 grabs, a read, blur and write; or break
VidLoop(j) ==
    /\ job[j].state = "running" /\ job[j].pc = "vloop"
    /\ IF job[j].left >= job[j].stride
       THEN /\ WriteFrame(j, job[j].frames + 1)
            /\ job' = [job EXCEPT
                    ![j].left = @ - job[j].stride, ![j].frames = @ + 1,
                    ![j].frame_index = @ + 1,
                    ![j].last_faces = LastFaces(job[j].frame_index + 1,
                                                job[j].opts.detect_every_n, @),
                    ![j].events = @ \o KeptFrame(job[j].frame_index + 1,
                                                 job[j].opts.detect_every_n,
                                                 job[j].last_faces)]
       ELSE /\ job' = [job EXCEPT ![j].pc = "vmux", ![j].left = 0]
            /\ UNCHANGED <<files, reaper>>
    /\ UNCHANGED <<dirs, tmp, results, fetch, stats, stop, resp, out, pre, hist, other>>

\* the external tool process_video_blur runs after the frame loop
ToolFor(preserve_audio, transcode_h264) ==
    IF preserve_audio THEN "mux" ELSE IF transcode_h264 THEN "transcode" ELSE "none"

\* _mux_audio / _transcode_video raising when ffmpeg is missing or exits non-zero
VidToolFatal(j) ==
    /\ job[j].state = "running" /\ job[j].pc = "vmux"
    /\ LET tool == ToolFor(job[j].opts.preserve_audio, job[j].opts.transcode_h264)
           can == /\ tool # "none"
                  /\ IsFile(files, TempOutput(j))
                  /\ Parent(OutputPath(j)) \in dirs
                  /\ tool = "mux" => IsFile(files, InputPath(j))
       IN  \E outcome \in {"missing", "failed", "done"} :
            IF outcome = "done" /\ can
            THEN /\ files' = Put(files, OutputPath(j),
                                 VideoData(Decoded(j).raw, job[j].frames, tool = "mux",
                                           job[j].opts.transcode_h264))
                 /\ reaper' = Touch(OutputPath(j))
                 /\ job' = [job EXCEPT ![j].pc = "vtempdel", ![j].muxed = TRUE]
                 /\ results' = results
            ELSE IF tool = "none"
            THEN /\ job' = [job EXCEPT ![j].pc = "vreplace", ![j].muxed = FALSE]
                 /\ UNCHANGED <<files, reaper, results>>
            ELSE /\ Raise(j, "RuntimeError: ffmpeg failed")
                 /\ UNCHANGED <<files, reaper>>
    /\ UNCHANGED <<dirs, tmp, fetch, stats, stop, resp, out, pre, hist, other>>

\* _mux_audio / _transcode_video: ffmpeg is missing, exits non-zero, or writes
\* output_path; muxed is the value the function returns
VidTool(j) ==
    /\ job[j].state = "running" /\ job[j].pc = "vmux"
    /\ LET tool == ToolFor(job[j].opts.preserve_audio, job[j].opts.transcode_h264)
           can == /\ tool # "none"
                  /\ IsFile(files, TempOutput(j))
                  /\ Parent(OutputPath(j)) \in dirs
                  /\ tool = "mux" => IsFile(files, InputPath(j))
       IN  \E outcome \in {"missing", "failed", "done"} :
            IF outcome = "done" /\ can
            THEN /\ files' = Put(files, OutputPath(j),
                                 VideoData(Decoded(j).raw, job[j].frames, tool = "mux",
                                           job[j].opts.transcode_h264))
                 /\ reaper' = Touch(OutputPath(j))
                 /\ job' = [job EXCEPT ![j].pc = "vtempdel", ![j].muxed = TRUE]
            ELSE /\ job' = [job EXCEPT ![j].pc = "vreplace", ![j].muxed = FALSE]
                 /\ UNCHANGED <<files, reaper>>
    /\ UNCHANGED <<dirs, tmp, results, fetch, stats, stop, resp, out, pre, hist, other>>

\* temp_output.unlink(missing_ok=True)
VidTempUnlink(j) ==
    /\ job[j].state = "running" /\ job[j].pc = "vtempdel"
    /\ files' = IF IsFile(files, TempOutput(j)) THEN Drop(files, TempOutput(j)) ELSE files
    /\ job' = [job EXCEPT ![j].pc = "vunlink"]
    /\ UNCHANGED <<dirs, tmp, results, fetch, stats, reaper, stop, resp, out, pre, hist, other>>

\* temp_output.replace(output_path): the rename keeps the file's mtime
VidReplace(j) ==
    /\ job[j].state = "running" /\ job[j].pc = "vreplace"
    /\ IF ~IsFile(files, TempOutput(j)) \/ Parent(OutputPath(j)) \notin dirs
       THEN /\ Raise(j, "FileNotFoundError")
            /\ UNCHANGED <<files, reaper>>
       ELSE /\ files' = [q \in (DOMAIN files \ {TempOutput(j)}) \cup {OutputPath(j)} |->
                            IF q = OutputPath(j) THEN files[TempOutput(j)] ELSE files[q]]
            /\ reaper' = [reaper EXCEPT !.expired =
                            IF TempOutput(j) \in @
                            THEN (@ \ {TempOutput(j)}) \cup {OutputPath(j)}
                            ELSE @ \ {OutputPath(j)}]
            /\ job' = [job EXCEPT ![j].pc = "vunlink"]
            /\ results' = results
    /\ UNCHANGED <<dirs, tmp, fetch, stats, stop, resp, out, pre, hist, other>>

VideoEntry(name, path, duration) ==
    [type |-> "video", filename |-> name, content_type |-> "video/mp4",
     path |-> path, duration_seconds |-> duration]

\* duration_seconds = frames / output_fps, output_fps = fps / stride
Duration(frames, fps, stride) == [num |-> frames * stride, den |-> fps]

\* try: input_path.unlink() except FileNotFoundError: pass; results.append(...)
VidInputUnlink(j) ==
    /\ job[j].state = "running" /\ job[j].pc = "vunlink"
    /\ files' = IF IsFile(files, InputPath(j)) THEN Drop(files, InputPath(j)) ELSE files
    /\ job' = [job EXCEPT
                ![j].pc = "item", ![j].idx = @ + 1,
                ![j].left = 0, ![j].frames = 0, ![j].stride = 0, ![j].fps = 0,
                ![j].output_fps = JobFree.output_fps,
                ![j].frame_index = 0, ![j].last_faces = 0, ![j].events = <<>>,
                ![j].muxed = FALSE,
                ![j].acc = Append(@, VideoEntry(
                    _safe_video_output_name(Decoded(j).filename), OutputPath(j),
                    Duration(job[j].frames, job[j].fps, job[j].stride)))]
    /\ UNCHANGED <<dirs, tmp, results, fetch, stats, reaper, stop, resp, out, pre, hist, other>>

----------------------------------------------------------------------------
(* api/routes.py: validation of uploads *)

Error(status, code) == [status_code |-> status, code |-> code, task_id |-> 0]

Valid == Error(0, "valid")

ValidationError == Error(400, "validation_error")

PayloadTooLargeError == Error(413, "payload_too_large")

UnsupportedMediaTypeError == Error(415, "unsupported_media_type")

Queued(task_id) == [status_code |-> 200, code |-> "queued", task_id |-> task_id]

NoMedia == <<"none", "">>

\* the (kind, extension) the signature of the data stands for, or None
_sniff_media(data) ==
    CASE data.sig \in {"jpg", "png", "gif", "bmp", "tiff", "webp"} -> <<"image", data.sig>>
      [] data.sig \in {"mov", "mp4", "webm", "mkv", "avi"} -> <<"video", data.sig>>
      [] OTHER -> NoMedia

_video_extensions_match(extension, detected) ==
    \/ extension = detected
    \/ extension \in {"mkv", "webm"} /\ detected \in {"mkv", "webm"}

\* file.filename or "upload"
FilenameOr(fn) == IF fn = NoName THEN [stem |-> "upload", ext |-> ""] ELSE fn

\* the checks of submit_blur on one file without the size check
ValidateImageAnySize(up) ==
    LET filename == FilenameOr(up.filename)
        sniffed == _sniff_media(up.data)
    IN  IF filename.ext = "" THEN ValidationError
        ELSE IF filename.ext \notin AllowedExtensions THEN UnsupportedMediaTypeError
        ELSE IF sniffed = NoMedia THEN UnsupportedMediaTypeError
        ELSE IF sniffed[1] # "image" THEN UnsupportedMediaTypeError
        ELSE IF sniffed[2] \notin AllowedExtensions THEN UnsupportedMediaTypeError
        ELSE IF filename.ext # sniffed[2] THEN ValidationError
        ELSE Valid

\* the checks submit_blur makes on one file, in order
ValidateImage(up) ==
    LET filename == FilenameOr(up.filename)
        sniffed == _sniff_media(up.data)
    IN  IF filename.ext = "" THEN ValidationError
        ELSE IF filename.ext \notin AllowedExtensions THEN UnsupportedMediaTypeError
        ELSE IF sniffed = NoMedia THEN UnsupportedMediaTypeError
        ELSE IF sniffed[1] # "image" THEN UnsupportedMediaTypeError
        ELSE IF sniffed[2] \notin AllowedExtensions THEN UnsupportedMediaTypeError
        ELSE IF filename.ext # sniffed[2] THEN ValidationError
        ELSE IF up.data.big THEN PayloadTooLargeError
        ELSE Valid

RECURSIVE ValidateEach(_)
ValidateEach(ups) ==
    IF ups = <<>> THEN Valid
    ELSE IF ValidateImage(Head(ups)) # Valid THEN ValidateImage(Head(ups))
    ELSE ValidateEach(Tail(ups))

\* submit_blur before the task is submitted, _encode_uploads included
ValidateBlur(ups) ==
    IF ups = <<>> THEN ValidationError
    ELSE IF Len(ups) > MaxUploadFiles THEN ValidationError
    ELSE IF ValidateEach(ups) # Valid THEN ValidateEach(ups)
    ELSE IF \E i \in 1..Len(ups) : ups[i].data.sig = "empty" THEN ValidationError
    ELSE Valid

\* duration = frame_count / fps, 0 when either is not positive; duration > max
TooLong(data) ==
    data.fps > 0 /\ data.meta > 0 /\ data.meta > MaxVideoSeconds * data.fps

\* the checks submit_blur_video makes before the temporary file is written
ValidateVideoUpload(up) ==
    LET filename == FilenameOr(up.filename)
        sniffed == _sniff_media(up.data)
    IN  IF filename.ext = "" THEN ValidationError
        ELSE IF filename.ext \notin AllowedVideoExtensions THEN UnsupportedMediaTypeError
        ELSE IF sniffed = NoMedia THEN UnsupportedMediaTypeError
        ELSE IF sniffed[1] # "video" THEN UnsupportedMediaTypeError
        ELSE IF sniffed[2] \notin AllowedVideoExtensions THEN UnsupportedMediaTypeError
        ELSE IF ~_video_extensions_match(filename.ext, sniffed[2]) THEN ValidationError
        ELSE IF up.data.big THEN PayloadTooLargeError
        ELSE Valid

\* _video_duration_seconds on the temporary file and the duration check
ValidateDuration(up) ==
    IF ~up.data.ok THEN ValidationError
    ELSE IF TooLong(up.data) THEN ValidationError
    ELSE Valid

\* the temporary files after NamedTemporaryFile(delete=False) ... finally: unlink
TempAfterProbe(t, up) == (t \cup {NameOf(FilenameOr(up.filename))}) \ {NameOf(FilenameOr(up.filename))}

\* _encode_uploads building the payload from the last upload to the first
_encode_uploads_reversed(ups) ==
    [i \in 1..Len(ups) |->
        [filename |-> FilenameOr(ups[Len(ups) + 1 - i].filename),
         content_type |-> ups[Len(ups) + 1 - i].content_type,
         data |-> b64encode(ups[Len(ups) + 1 - i].data)]]

_encode_uploads(ups) ==
    [i \in 1..Len(ups) |->
        [filename |-> FilenameOr(ups[i].filename),
         content_type |-> ups[i].content_type,
         data |-> b64encode(ups[i].data)]]

----------------------------------------------------------------------------
(* stats/store.py *)

DEFAULT_KEYS == {"total_requests", "total_tasks", "total_images", "total_visitors"}

\* INSERT ... ON CONFLICT(key) DO UPDATE SET value = value + excluded.value
increment_stat(st, key, amount) ==
    [k \in DOMAIN st \cup {key} |->
        IF k = key THEN (IF k \in DOMAIN st THEN st[k] + amount ELSE amount) ELSE st[k]]

increment_stats(st, updates) ==
    [k \in DOMAIN st \cup DOMAIN updates |->
        IF k \in DOMAIN updates
        THEN (IF k \in DOMAIN st THEN st[k] + updates[k] ELSE updates[k])
        ELSE st[k]]

\* record_visitor adding to total_visitors whether or not the row was inserted
record_visitor_always(vs, st, visitor_id) ==
    [visitors |-> vs \cup {visitor_id},
     stats |-> [st EXCEPT !["total_visitors"] = @ + 1]]

\* INSERT OR IGNORE INTO visitors; is_new = cursor.rowcount == 1;
\* if is_new: UPDATE stats SET value = value + 1 WHERE key = 'total_visitors'
record_visitor(vs, st, visitor_id) ==
    IF visitor_id \in vs
    THEN [visitors |-> vs, stats |-> st]
    ELSE [visitors |-> vs \cup {visitor_id},
          stats |-> [st EXCEPT !["total_visitors"] = @ + 1]]

\* stats = {key: 0 for key in DEFAULT_KEYS}, then every row of the table
get_stats(st) ==
    [k \in DEFAULT_KEYS \cup DOMAIN st |-> IF k \in DOMAIN st THEN st[k] ELSE 0]

----------------------------------------------------------------------------
(* the requests the model sends *)

Stems == {"a", "b"}

Data(sig, big, ok, nframes, fps, meta, tag) ==
    [sig |-> sig, big |-> big, ok |-> ok, nframes |-> nframes, fps |-> fps,
     meta |-> meta, tag |-> tag]

Upload(stem, ext, ctype, data) ==
    [filename |-> [stem |-> stem, ext |-> ext], content_type |-> ctype, data |-> data]

Image(stem, ext, sig, big, ok, tag) ==
    Upload(stem, ext, "image/jpeg", Data(sig, big, ok, 0, 0, 0, tag))

GoodImage(tag) == Image("a", "jpg", "jpg", FALSE, TRUE, tag)

\* uploads submit_blur accepts: the image may still fail to decode in the worker
GoodImages ==
    UNION {{[i \in 1..n |-> Image(st[i], "jpg", "jpg", FALSE, ok[i], i)] :
                st \in {t \in [1..n -> Stems] : t[1] = "a"}, ok \in [1..n -> BOOLEAN]} :
           n \in 1..MaxUploadFiles}

BadImages(tag) ==
    {Image("a", "", "jpg", FALSE, TRUE, tag),
     Image("a", "gif", "gif", FALSE, TRUE, tag),
     Image("a", "jpg", "none", FALSE, FALSE, tag),
     Image("a", "jpg", "empty", FALSE, FALSE, tag),
     Image("a", "jpg", "mp4", FALSE, TRUE, tag),
     Image("a", "jpg", "gif", FALSE, TRUE, tag),
     Image("a", "png", "jpg", FALSE, TRUE, tag),
     Image("a", "jpeg", "jpg", FALSE, TRUE, tag),
     Image("a", "jpg", "jpg", TRUE, TRUE, tag)}

ImageRequests ==
    {<<>>} \cup GoodImages
    \cup {<<x>> : x \in BadImages(1)}
    \cup {<<GoodImage(1), x>> : x \in BadImages(2)}
    \cup {[i \in 1..(MaxUploadFiles + 1) |-> GoodImage(i)]}

Video(stem, ext, sig, big, ok, nframes, fps, meta) ==
    Upload(stem, ext, "video/mp4", Data(sig, big, ok, nframes, fps, meta, 1))

VideoFps == {0, 30}

GoodVideos ==
    {Video("a", "mp4", "mp4", FALSE, TRUE, n, fps, 0) : n \in 0..MaxFrames, fps \in VideoFps}
    \cup {Video("c", "mkv", "webm", FALSE, TRUE, 0, 0, 4000)}

BadVideos ==
    {Video("a", "", "mp4", FALSE, TRUE, 1, 0, 0),
     Video("a", "jpg", "jpg", FALSE, TRUE, 1, 0, 0),
     Video("a", "mp4", "none", FALSE, FALSE, 1, 0, 0),
     Video("a", "mp4", "jpg", FALSE, TRUE, 1, 0, 0),
     Video("a", "mp4", "avi", FALSE, TRUE, 1, 0, 0),
     Video("a", "mp4", "mov", FALSE, TRUE, 1, 0, 0),
     Video("a", "mp4", "mp4", TRUE, TRUE, 1, 0, 0),
     Video("a", "mp4", "mp4", FALSE, FALSE, 1, 0, 0),
     Video("a", "mp4", "mp4", FALSE, TRUE, 1, 30, 4000)}

VideoRequests == GoodVideos \cup BadVideos

----------------------------------------------------------------------------
(* what is wrong with a submit request, in the words of the interface: stated *)
(* on the request alone, independently of the handlers' checks                *)

ImageSigs == {"jpg", "png", "gif", "bmp", "tiff", "webp"}

VideoSigs == {"mov", "mp4", "webm", "mkv", "avi"}

FileDefect(up, kind) ==
    LET ext == up.filename.ext
        sig == up.data.sig
        allowed == IF kind = "image" THEN AllowedExtensions ELSE AllowedVideoExtensions
        sigs == IF kind = "image" THEN ImageSigs ELSE VideoSigs
        same == \/ ext = sig
                \/ kind = "video" /\ {ext, sig} \subseteq {"mkv", "webm"}
    IN  IF ext = "" THEN "missing_extension"
        ELSE IF ext \notin allowed THEN "disallowed_extension"
        ELSE IF sig \notin ImageSigs \cup VideoSigs THEN "unrecognised_signature"
        ELSE IF sig \notin sigs THEN "wrong_kind"
        ELSE IF sig \notin allowed THEN "disallowed_signature"
        ELSE IF ~same THEN "mismatch"
        ELSE IF up.data.big THEN "oversize"
        ELSE "none"

ImageDefect(ups) ==
    IF ups = <<>> THEN "no_files"
    ELSE IF Len(ups) > MaxUploadFiles THEN "too_many"
    ELSE IF \E i \in 1..Len(ups) : FileDefect(ups[i], "image") # "none"
    THEN LET i == CHOOSE k \in 1..Len(ups) :
                    /\ FileDefect(ups[k], "image") # "none"
                    /\ \A m \in 1..(k - 1) : FileDefect(ups[m], "image") = "none"
         IN  FileDefect(ups[i], "image")
    ELSE "none"

VideoDefect(up) ==
    IF FileDefect(up, "video") # "none" THEN FileDefect(up, "video")
    ELSE IF ~up.data.ok THEN "unreadable"
    ELSE IF up.data.fps > 0 /\ up.data.meta > MaxVideoSeconds * up.data.fps THEN "overlong"
    ELSE "none"

----------------------------------------------------------------------------
(* api/routes.py and api/app.py: the submit handlers *)

\* history of the requests:
\*   begun    jobs whose result some fetch has found
\*   served   job -> number of fetches answered with its artifacts
\*   defect   what was wrong with the last submit request ("none": nothing)
\*   valid    number of submit requests with nothing wrong
NoHistory == [begun |-> {}, served |-> [j \in JobIds |-> 0], defect |-> "", valid |-> 0]

\* the API serves a request step only between sweeps and before shutdown
Serving == ~stop /\ ~Sweeping

FreeIds == {j \in JobIds : job[j].state = "free"}

\* the task id the submitter returns: a fresh one
NewTaskId == CHOOSE j \in FreeIds : \A k \in FreeIds : j <= k

\* request.app.state.task_submitter(payload): the broker queues the message
Kiq(j, kind, payload) ==
    job' = [job EXCEPT ![j] = [JobFree EXCEPT !.state = "queued", !.kind = kind,
                                              !.items = payload]]

\* the request_logger middleware counts every request to /blur and /blur/video
CountRequest(st) == increment_stat(st, "total_requests", 1)

\* what submit_blur and submit_blur_video add to the stats once the task is queued
CountTask(st) == increment_stat(st, "total_tasks", 1)

\* POST /blur
SubmitBlur(ups) ==
    /\ Serving
    /\ stats["total_requests"] < MaxRequests
    /\ IF ValidateBlur(ups) # Valid
       THEN /\ resp' = ValidateBlur(ups)
            /\ stats' = CountRequest(stats)
            /\ job' = job
       ELSE /\ FreeIds # {}
            /\ Kiq(NewTaskId, "image", _encode_uploads(ups))
            /\ stats' = CountRequest(CountTask(stats))
            /\ resp' = Queued(NewTaskId)
    /\ hist' = [hist EXCEPT !.defect = ImageDefect(ups),
                            !.valid = IF ImageDefect(ups) = "none" THEN @ + 1 ELSE @]
    /\ UNCHANGED <<dirs, files, tmp, results, fetch, reaper, stop, out, pre, other>>

\* POST /blur/video
SubmitBlurVideo(up) ==
    /\ Serving
    /\ stats["total_requests"] < MaxRequests
    /\ IF ValidateVideoUpload(up) # Valid
       THEN /\ resp' = ValidateVideoUpload(up)
            /\ stats' = CountRequest(stats)
            /\ UNCHANGED <<job, tmp>>
       ELSE IF ValidateDuration(up) # Valid
       THEN /\ resp' = ValidateDuration(up)
            /\ tmp' = TempAfterProbe(tmp, up)
            /\ stats' = CountRequest(stats)
            /\ job' = job
       ELSE /\ FreeIds # {}
            /\ tmp' = TempAfterProbe(tmp, up)
            /\ Kiq(NewTaskId, "video", _encode_uploads(<<up>>))
            /\ stats' = CountRequest(CountTask(stats))
            /\ resp' = Queued(NewTaskId)
    /\ hist' = [hist EXCEPT !.defect = VideoDefect(up),
                            !.valid = IF VideoDefect(up) = "none" THEN @ + 1 ELSE @]
    /\ UNCHANGED <<dirs, files, results, fetch, reaper, stop, out, pre, other>>

----------------------------------------------------------------------------
(* api/routes.py and storage/filesystem.py: fetch_result *)

Response(status, code, media_type, body, details) ==
    [status_code |-> status, code |-> code, media_type |-> media_type,
     body |-> body, details |-> details]

NoResponse == Response(0, "", "", <<>>, "")

Pending == Response(202, "pending", "", <<>>, "")

TaskFailedError(cause) == Response(500, "task_failed", "", <<>>, cause)

ResultMissingError == Response(410, "result_missing", "", <<>>, "")

ResultPayloadMissingError == Response(500, "result_payload_missing", "", <<>>, "")

\* an exception no handler of the application catches
InternalError(exc) == Response(500, "internal_error", "", <<>>, exc)

\* a request slot; first, late, found and present record what the request met:
\*   found    the kind of result the backend held for the task id
\*   present  every file of the manifest was on disk when the handler looked
\*   first    no earlier request had found the job's result
\*   late     a request for the job had already been answered with the artifacts
\* and gone records that cleanup_paths found a file of the request already deleted
FetchIdle == [pc |-> "idle", job |-> 0, items |-> <<>>, found |-> "", present |-> FALSE,
              first |-> FALSE, late |-> FALSE]

\* a response with the request it answers
Answer(slot, response, gone) ==
    [job |-> slot.job, found |-> slot.found, present |-> slot.present,
     first |-> slot.first, late |-> slot.late, gone |-> gone, response |-> response]

NoAnswer == Answer(FetchIdle, NoResponse, FALSE)

\* a new request takes the lowest free slot
FreeSlot(f) == fetch[f].pc = "idle" /\ \A g \in Fetchers : g < f => fetch[g].pc # "idle"

\* read_bytes(path)
read_bytes(fl, p) == fl[p].data

Loaded(fl, item) ==
    [filename |-> item.filename, content_type |-> item.content_type,
     bytes |-> read_bytes(fl, item.path), path |-> item.path,
     duration_seconds |-> item.duration_seconds]

\* the item whose path does not exist, if any: ResultMissingError is raised there
Missing(fl, items) == \E i \in 1..Len(items) : ~IsFile(fl, items[i].path)

_load_results(fl, items) == [i \in 1..Len(items) |-> Loaded(fl, items[i])]

_load_video_result(fl, item) == Loaded(fl, item)

\* the entries fetch_result loads for a return value
ToLoad(value) == IF value[1].type = "video" THEN <<value[1]>> ELSE value

_zip_results(items) ==
    [i \in 1..Len(items) |-> [filename |-> items[i].filename, bytes |-> items[i].bytes]]

\* path.unlink() in cleanup_paths without the except FileNotFoundError
CleanupUnlinkUnhandled == "none"

\* handler of the try around path.unlink() in cleanup_paths
CleanupUnlinkHandler == "FileNotFoundError"

\* handler of the try around parent.rmdir() in cleanup_paths
CleanupRmdirHandler == "OSError"

RECURSIVE UnlinkEach(_, _)
UnlinkEach(fl, paths) ==
    IF paths = <<>> THEN [files |-> fl, error |-> "none"]
    ELSE LET exc == UnlinkError(fl, Head(paths))
         IN  IF exc = "none" THEN UnlinkEach(Drop(fl, Head(paths)), Tail(paths))
             ELSE IF Catches(CleanupUnlinkHandler, exc) THEN UnlinkEach(fl, Tail(paths))
             ELSE [files |-> fl, error |-> exc]

\* a cleanup_paths that removes nothing
cleanup_paths_keep(ds, fl, paths) == [files |-> fl, dirs |-> ds, error |-> "none"]

\* cleanup_paths(paths): the store afterwards and the exception that escaped
cleanup_paths(ds, fl, paths) ==
    LET un == UnlinkEach(fl, paths)
        parents == {Parent(paths[i]) : i \in 1..Len(paths)}
        gone == {d \in parents : RmdirError(ds, un.files, d) = "none"}
        bad == {d \in parents : /\ RmdirError(ds, un.files, d) # "none"
                                /\ ~Catches(CleanupRmdirHandler, RmdirError(ds, un.files, d))}
    IN  IF un.error # "none" THEN [files |-> un.files, dirs |-> ds, error |-> un.error]
        ELSE [files |-> un.files, dirs |-> ds \ gone,
              error |-> IF bad = {} THEN "none"
                        ELSE RmdirError(ds, un.files, CHOOSE d \in bad : TRUE)]

PathsOf(items) == [i \in 1..Len(items) |-> items[i].path]

\* int(round(duration_seconds or 0))
RoundSeconds(d) == IF d.num = 0 THEN 0 ELSE RoundDiv(d.num, d.den)

IsVideo(value) == value # <<>> /\ value[1].type = "video"

\* the counters a successful fetch adds to before it deletes the files
CountServed(st, items, video) ==
    IF video
    THEN increment_stats(st, [k \in {"total_videos", "total_video_seconds"} |->
                                IF k = "total_videos" THEN 1
                                ELSE RoundSeconds(items[1].duration_seconds)])
    ELSE increment_stat(st, "total_images", Len(items))

\* every successful fetch answers with the first item alone
ArtifactsFirstOnly(items, video) ==
    Response(200, "ok", items[1].content_type, <<items[1].bytes>>, "")

\* the response fetch_result builds from the loaded items
Artifacts(items, video) ==
    IF video \/ Len(items) = 1
    THEN Response(200, "ok", items[1].content_type, <<items[1].bytes>>, "")
    ELSE Response(200, "ok", "application/zip", _zip_results(items), "")

\* result_backend.get_result without the except ResultIsMissingError
GetResultUnhandled == "none"

\* the handler of the try around result_backend.get_result in _get_task_result
GetResultHandler == "ResultIsMissingError"

\* result_backend.get_result(task_id) raises ResultIsMissingError for an unknown id;
\* _get_task_result returns None for it
_get_task_result(res, j) ==
    IF res[j].kind # "none" THEN res[j]
    ELSE IF Catches(GetResultHandler, "ResultIsMissingError") THEN NoResult
    ELSE [kind |-> "raised", value |-> <<>>, error |-> "ResultIsMissingError"]

\* fetch_result without the is_err branch
fetch_result_begin_no_err(result, fl) ==
    IF result.kind = "raised" THEN [response |-> InternalError(result.error), items |-> <<>>]
    ELSE IF result.kind = "none" THEN [response |-> Pending, items |-> <<>>]
    ELSE IF result.value = <<>>
    THEN [response |-> ResultPayloadMissingError, items |-> <<>>]
    ELSE IF Missing(fl, ToLoad(result.value))
    THEN [response |-> ResultMissingError, items |-> <<>>]
    ELSE [response |-> NoResponse, items |-> _load_results(fl, ToLoad(result.value))]

\* fetch_result with loaders that read each path without the path.exists() test:
\* read_bytes raises FileNotFoundError for a file that is gone
fetch_result_begin_unchecked(result, fl) ==
    IF result.kind = "raised" THEN [response |-> InternalError(result.error), items |-> <<>>]
    ELSE IF result.kind = "none" THEN [response |-> Pending, items |-> <<>>]
    ELSE IF result.kind = "err"
    THEN [response |-> TaskFailedError(result.error), items |-> <<>>]
    ELSE IF result.value = <<>>
    THEN [response |-> ResultPayloadMissingError, items |-> <<>>]
    ELSE IF Missing(fl, ToLoad(result.value))
    THEN [response |-> InternalError("FileNotFoundError"), items |-> <<>>]
    ELSE [response |-> NoResponse, items |-> _load_results(fl, ToLoad(result.value))]

\* fetch_result from the result to the first await: the response it ends with, or
\* the items it has loaded
fetch_result_begin(result, fl) ==
    IF result.kind = "raised" THEN [response |-> InternalError(result.error), items |-> <<>>]
    ELSE IF result.kind = "none" THEN [response |-> Pending, items |-> <<>>]
    ELSE IF result.kind = "err"
    THEN [response |-> TaskFailedError(result.error), items |-> <<>>]
    ELSE IF result.value = <<>>
    THEN [response |-> ResultPayloadMissingError, items |-> <<>>]
    ELSE IF Missing(fl, ToLoad(result.value))
    THEN [response |-> ResultMissingError, items |-> <<>>]
    ELSE [response |-> NoResponse, items |-> _load_results(fl, ToLoad(result.value))]

\* a fetch_result that, finding a file of the manifest gone, removes the files
\* that are left before it raises ResultMissingError
FetchBeginPurging(f, j) ==
    /\ Serving
    /\ FreeSlot(f)
    /\ LET result == _get_task_result(results, j)
           began == fetch_result_begin(result, files)
           slot == [FetchIdle EXCEPT
                        !.job = j,
                        !.found = results[j].kind,
                        !.present = /\ results[j].kind = "ok"
                                    /\ results[j].value # <<>>
                                    /\ ~Missing(files, ToLoad(results[j].value)),
                        !.first = (results[j].kind = "ok" /\ j \notin hist.begun),
                        !.late = (hist.served[j] > 0)]
           store == IF began.response = ResultMissingError
                    THEN cleanup_paths(dirs, files, PathsOf(ToLoad(result.value)))
                    ELSE [files |-> files, dirs |-> dirs, error |-> "none"]
       IN  /\ hist' = IF results[j].kind = "ok"
                      THEN [hist EXCEPT !.begun = @ \cup {j}] ELSE hist
           /\ files' = store.files
           /\ dirs' = store.dirs
           /\ IF began.response # NoResponse
              THEN out' = Answer(slot, began.response, FALSE) /\ fetch' = fetch
              ELSE /\ out' = out
                   /\ fetch' = [fetch EXCEPT ![f] =
                                    [slot EXCEPT !.pc = "loaded", !.items = began.items]]
    /\ UNCHANGED <<tmp, results, job, stats, reaper, stop, resp, pre, other>>

\* GET /results/{task_id} up to the first await after _get_task_result
FetchBegin(f, j) ==
    /\ Serving
    /\ FreeSlot(f)
    /\ LET result == _get_task_result(results, j)
           began == fetch_result_begin(result, files)
           slot == [FetchIdle EXCEPT
                        !.job = j,
                        !.found = results[j].kind,
                        !.present = /\ results[j].kind = "ok"
                                    /\ results[j].value # <<>>
                                    /\ ~Missing(files, ToLoad(results[j].value)),
                        !.first = (results[j].kind = "ok" /\ j \notin hist.begun),
                        !.late = (hist.served[j] > 0)]
       IN  /\ hist' = IF results[j].kind = "ok"
                      THEN [hist EXCEPT !.begun = @ \cup {j}] ELSE hist
           /\ IF began.response # NoResponse
              THEN out' = Answer(slot, began.response, FALSE) /\ fetch' = fetch
              ELSE /\ out' = out
                   /\ fetch' = [fetch EXCEPT ![f] =
                                    [slot EXCEPT !.pc = "loaded", !.items = began.items]]
    /\ UNCHANGED <<dirs, files, tmp, results, job, stats, reaper, stop, resp, pre, other>>

\* fetch_result from the stats increment on: cleanup_paths, then the response
FetchFinish(f) ==
    /\ ~Sweeping
    /\ fetch[f].pc = "loaded"
    /\ LET items == fetch[f].items
           video == IsVideo(results[fetch[f].job].value)
           store == cleanup_paths(dirs, files, PathsOf(items))
           response == IF store.error # "none" THEN InternalError(store.error)
                       ELSE Artifacts(items, video)
       IN  /\ stats' = CountServed(stats, items, video)
           /\ files' = store.files
           /\ dirs' = store.dirs
           /\ fetch' = [fetch EXCEPT ![f] = FetchIdle]
           /\ out' = Answer(fetch[f], response, Missing(files, items))
           /\ hist' = IF response.status_code = 200
                      THEN [hist EXCEPT !.served[fetch[f].job] = @ + 1]
                      ELSE hist
    /\ UNCHANGED <<tmp, results, job, reaper, stop, resp, pre, other>>

\* lifespan after yield: stop_event.set(), once the requests in flight are answered
Shutdown ==
    /\ Serving
    /\ \A f \in Fetchers : fetch[f].pc # "loaded"
    /\ stop' = TRUE
    /\ life' = "stopping"
    /\ UNCHANGED <<dirs, files, tmp, results, job, fetch, stats, reaper, resp, out, pre, hist,
                   visitors, merge, frame>>

\* lifespan after stop_event.set(): await cleanup_task if there is one (the await
\* raises what the task raised), then broker_instance.shutdown()
LifespanExit ==
    /\ life = "stopping"
    /\ reaper.pc \in {"off", "exited", "crashed"}
    /\ life' = IF reaper.pc = "crashed" THEN "failed" ELSE "down"
    /\ UNCHANGED <<dirs, files, tmp, results, job, fetch, stats, reaper, stop, resp, out, pre,
                   hist, visitors, merge, frame>>

----------------------------------------------------------------------------
(* The specification *)

NoFiles == <<>>

\* the application once lifespan has yielded, the cleanup interval being minutes
Start(minutes) ==
    /\ dirs = {}
    /\ files = NoFiles
    /\ tmp = {}
    /\ results = [j \in JobIds |-> NoResult]
    /\ job = [j \in JobIds |-> JobFree]
    /\ fetch = [f \in Fetchers |-> FetchIdle]
    /\ stats = [k \in DEFAULT_KEYS |-> 0]
    /\ reaper = lifespan_start(minutes)
    /\ stop = FALSE
    /\ resp = Error(0, "")
    /\ out = NoAnswer
    /\ pre = NoStore
    /\ hist = NoHistory
    /\ visitors = {}
    /\ merge = NoMerge
    /\ life = "up"
    /\ frame = NoFrame

Init == Start(StorageCleanupIntervalMinutes)

Worker(j) ==
    \/ WorkerStart(j)
    \/ ImgProcess(j)
    \/ ImgWrite(j)
    \/ VidProcess(j)
    \/ VidWriteInput(j)
    \/ VidOpen(j)
    \/ VidOpenWriter(j)
    \/ VidFirstFrame(j)
    \/ VidLoop(j)
    \/ VidTool(j)
    \/ VidTempUnlink(j)
    \/ VidReplace(j)
    \/ VidInputUnlink(j)
    \/ TaskReturn(j)

Reaper ==
    \/ SweepStart
    \/ SweepIsFile
    \/ SweepStat
    \/ SweepUnlink
    \/ SweepListDirs
    \/ SweepRmdir
    \/ SweepReturn
    \/ ReaperExit

Api ==
    \/ \E ups \in ImageRequests : SubmitBlur(ups)
    \/ \E up \in VideoRequests : SubmitBlurVideo(up)
    \/ \E f \in Fetchers, j \in JobIds : FetchBegin(f, j)
    \/ \E f \in Fetchers : FetchFinish(f)
    \/ Shutdown
    \/ LifespanExit

Next ==
    \/ Api
    \/ \E j \in JobIds : Worker(j)
    \/ Reaper
    \/ Tick

Spec == Init /\ [][Next]_vars

\* the worker gets to run, the cleanup task is scheduled, and time advances
LiveSpec ==
    /\ Spec
    /\ \A j \in JobIds : WF_vars(Worker(j))
    /\ WF_vars(Reaper)
    /\ WF_vars(Tick)
    /\ WF_vars(LifespanExit)

\* the cleanup loop with stop_event never set
Sweep ==
    \/ SweepStart
    \/ SweepIsFile
    \/ SweepStat
    \/ SweepUnlink
    \/ SweepListDirs
    \/ SweepRmdir
    \/ SweepReturn

\* the application while it is not shut down
RunNext ==
    \/ \E ups \in ImageRequests : SubmitBlur(ups)
    \/ \E up \in VideoRequests : SubmitBlurVideo(up)
    \/ \E f \in Fetchers, j \in JobIds : FetchBegin(f, j)
    \/ \E f \in Fetchers : FetchFinish(f)
    \/ \E j \in JobIds : Worker(j)
    \/ Sweep
    \/ Tick

\* the cleanup loop keeps running and time advances; a worker may stall for ever
RunSpec == Init /\ [][RunNext]_vars /\ WF_vars(Sweep) /\ WF_vars(Tick)

----------------------------------------------------------------------------
(* fetch_result: consumption *)

\* the entries of the manifest fetch_result loads for job j
Manifest(j) == ToLoad(results[j].value)

\* the bytes a 200 response carries, one per loaded item
IsArtifact(b) == b.kind \in {"jpeg", "mp4"}

\* C1 as stated: for a successfully completed job the first fetch returns the
\* artifacts, and every later fetch of the same job id reports result_missing (410).
C1_FirstFetchWinsLaterMissing ==
    out.found = "ok" =>
        IF out.first THEN out.response.status_code = 200
        ELSE out.response = ResultMissingError

\* C1: for a successfully completed job, a fetch that finds every file of the
\* manifest on disk loads their bytes before anything is deleted and returns
\* them (200); once a fetch has answered with the artifacts the manifest's files
\* are deleted, and every fetch begun after that answer reports result_missing
\* (410), as does a fetch that finds a file of the manifest already gone.
C1_FetchConsumes ==
    /\ \A f \in Fetchers : fetch[f].pc = "loaded" =>
        /\ fetch[f].found = "ok" /\ fetch[f].present
        /\ Len(fetch[f].items) = Len(Manifest(fetch[f].job))
        /\ \A i \in 1..Len(fetch[f].items) : IsArtifact(fetch[f].items[i].bytes)
    /\ (out.found = "ok" /\ out.first /\ out.present) =>
        /\ out.response.status_code = 200
        /\ out.response.body # <<>>
    /\ out.response.status_code = 200 =>
        \A i \in 1..Len(Manifest(out.job)) :
            ~IsFile(files, Manifest(out.job)[i].path)
    /\ out.late => out.response = ResultMissingError
    /\ (out.found = "ok" /\ ~out.present) => out.response = ResultMissingError

\* C1 witness: one fetch was answered with the artifacts and a fetch begun after
\* it was answered with result_missing
C1_Witness ==
    /\ out.late
    /\ out.response = ResultMissingError
    /\ hist.served[out.job] = 1

\* C2: a fetch for a job id with no result in the backend (never submitted,
\* queued or running) is answered Pending (202, "pending") every time, and the
\* step deletes no file and changes no job, result or request in flight.
C2_NoResultIsPending ==
    [][\A j \in JobIds :
        ((\E f \in Fetchers : FetchBegin(f, j)) /\ results[j].kind = "none") =>
            /\ out'.response = Pending
            /\ out'.response.status_code = 202
            /\ files' = files /\ dirs' = dirs
            /\ job' = job /\ results' = results /\ fetch' = fetch]_vars

\* C2 witness: a fetch for a job that is still running was answered Pending
C2_Witness ==
    /\ out.found = "none"
    /\ out.response = Pending
    /\ job[out.job].state = "running"

\* C3: once a job's task raised, no step of the worker alters the response the
\* submitter got, and every fetch of the job is answered task_failed (500) with
\* the cause, and the step deletes no file and loads nothing.
C3_FailedIsReportedOnFetch ==
    [][/\ (\E j \in JobIds : Worker(j)) => resp' = resp
       /\ \A j \in JobIds :
            ((\E f \in Fetchers : FetchBegin(f, j)) /\ results[j].kind = "err") =>
                /\ out'.response = TaskFailedError(results[j].error)
                /\ out'.response.code = "task_failed"
                /\ files' = files /\ dirs' = dirs /\ fetch' = fetch]_vars

\* C3 witness: the fetch of a failed job was answered task_failed while a file
\* of the job is on disk, and the submitter had been told the job was queued
C3_Witness ==
    /\ out.found = "err"
    /\ out.response.code = "task_failed"
    /\ out.response.details = "ValueError: Could not decode image bytes"
    /\ resp = Queued(out.job)
    /\ DOMAIN files # {}

\* C4: fetches of one succeeded job that are in flight together have each loaded
\* all the bytes, and every fetch that found the files on disk is answered with
\* the artifacts (200), whichever of them deletes the files first.
C4_NoSingleWinner ==
    /\ \A f, g \in Fetchers :
        (fetch[f].pc = "loaded" /\ fetch[g].pc = "loaded" /\ fetch[f].job = fetch[g].job)
            => fetch[f].items = fetch[g].items
    /\ (out.found = "ok" /\ out.present) =>
        /\ out.response.status_code = 200
        /\ Len(out.response.body) >= 1
        /\ out.response.code # "internal_error"

\* C4 witness: two fetches of one job were both answered with the artifacts, the
\* second after the first had deleted the files
C4_Witness ==
    /\ out.response.status_code = 200
    /\ out.gone /\ ~out.late
    /\ hist.served[out.job] = 2

\* C5: neither the sweep's unlink and rmdir nor the fetch's cleanup_paths fails
\* on a file or directory that is already gone: the sweep never dies in them
\* and no fetch is answered with an internal error.
C5_DeletesTolerateGone ==
    /\ reaper.error \notin {"unlink:FileNotFoundError", "rmdir:FileNotFoundError"}
    /\ out.response.code # "internal_error"
    /\ \A f \in Fetchers : fetch[f].pc = "loaded" =>
        cleanup_paths(dirs, files, PathsOf(fetch[f].items)).error = "none"

\* C5 witness: a sweep deleted the files of a job between a fetch's load and its
\* cleanup_paths, and the fetch was still answered with the artifacts
C5_Witness ==
    /\ out.gone
    /\ out.response.status_code = 200
    /\ hist.served[out.job] = 1

----------------------------------------------------------------------------
(* cleanup_loop and the workers: progress *)

\* the names a file of a job's directory can have
FileNames ==
    {"a.mp4", "a_blurred.jpg", "a_blurred.mp4", "a_blurred.video.mp4",
     "b_blurred.jpg", "c.mkv"}

StorePaths == {TaskDir(j) \o <<n>> : j \in JobIds, n \in FileNames}

\* the cleanup task is no longer running: an exception ended it
ReaperGone == reaper.pc = "crashed"

\* C8: while the cleanup loop runs and time advances, every file in the store is
\* eventually deleted, whatever the state of its job.
C8_EveryFileIsReaped ==
    \A p \in StorePaths : (IsFile(files, p) ~> (~IsFile(files, p) \/ ReaperGone))

\* C8 witness: a sweep has deleted a file of a failed job that no fetch consumed
C8_Witness ==
    /\ \E j \in JobIds : results[j].kind = "err"
    /\ reaper.removed > 0
    /\ ~ReaperGone

\* C9: every queued job whose worker gets to run eventually has a result, ok
\* with a manifest or err with a cause, and from then on a fetch of its id is
\* never answered Pending.
C9_JobsFinish ==
    \A j \in JobIds :
        (job[j].state = "queued") ~>
            [](/\ results[j].kind \in {"ok", "err"}
               /\ results[j].kind = "ok" => results[j].value # <<>>
               /\ results[j].kind = "err" => results[j].error # ""
               /\ fetch_result_begin(_get_task_result(results, j), files).response # Pending)

\* C9 witness: a video job whose frame loop ran has returned its manifest
C9_Witness ==
    \E j \in JobIds :
        /\ results[j].kind = "ok"
        /\ IsVideo(results[j].value)
        /\ results[j].value[1].duration_seconds.num >= 2

----------------------------------------------------------------------------
(* submit_blur and submit_blur_video: rejection *)

ValidationStatus == {400, 413, 415}

\* C10: a submit request with a defect is answered with a validation error (415
\* unsupported_media_type when the extension is not allowed), and the step queues
\* no task, leaves every job and total_tasks as they were and leaves no file,
\* directory or temporary file behind.
C10_RejectedSubmitCreatesNothing ==
    [][((\/ \E ups \in ImageRequests : SubmitBlur(ups)
         \/ \E up \in VideoRequests : SubmitBlurVideo(up))
        /\ hist'.defect # "none") =>
            /\ resp'.status_code \in ValidationStatus
            /\ resp'.task_id = 0
            /\ hist'.defect = "disallowed_extension" => resp' = UnsupportedMediaTypeError
            /\ job' = job
            /\ stats'["total_tasks"] = stats["total_tasks"]
            /\ files' = files /\ dirs' = dirs /\ tmp' = {}]_vars

\* C10 witness: a request with a disallowed extension was answered 415 and no
\* task was counted or queued
C10_Witness ==
    /\ hist.defect = "disallowed_extension"
    /\ resp = UnsupportedMediaTypeError
    /\ resp.status_code = 415
    /\ stats["total_requests"] = 1
    /\ stats["total_tasks"] = 0
    /\ \A j \in JobIds : job[j].state = "free"

\* the step hands the uploads ups, in their order, to the task submitter once,
\* counts one task and answers queued with the id the submitter returned
QueuedOnce(ups, kind) ==
    \E j \in JobIds :
        /\ job[j].state = "free"
        /\ job'[j].state = "queued" /\ job'[j].kind = kind
        /\ \A k \in JobIds \ {j} : job'[k] = job[k]
        /\ Len(job'[j].items) = Len(ups)
        /\ \A i \in 1..Len(ups) :
            /\ job'[j].items[i].filename = ups[i].filename
            /\ job'[j].items[i].content_type = ups[i].content_type
            /\ b64decode(job'[j].items[i].data) = ups[i].data
        /\ stats'["total_tasks"] = stats["total_tasks"] + 1
        /\ resp'.status_code = 200 /\ resp'.code = "queued" /\ resp'.task_id = j

\* C11: a submit request with no defect hands its uploads in upload order to the
\* task submitter exactly once, adds exactly 1 to total_tasks and is answered
\* queued with the task id the submitter produced.
C11_ValidSubmitQueuesOnce ==
    [][/\ \A ups \in ImageRequests :
            (SubmitBlur(ups) /\ ImageDefect(ups) = "none") => QueuedOnce(ups, "image")
       /\ \A up \in VideoRequests :
            (SubmitBlurVideo(up) /\ VideoDefect(up) = "none") => QueuedOnce(<<up>>, "video")]_vars

\* C11 witness: two images named a and b were submitted and the queued task holds
\* a then b
C11_Witness ==
    \E j \in JobIds :
        /\ job[j].state = "queued"
        /\ Len(job[j].items) = 2
        /\ job[j].items[1].filename.stem = "a"
        /\ job[j].items[2].filename.stem = "b"
        /\ resp = Queued(j)
        /\ stats["total_tasks"] = 1

\* what a fetch has to hand out for the manifest entries it loaded: their file
\* names and the bytes the files held when the handler read them
Bundle(manifest, items) ==
    [i \in 1..Len(manifest) |-> [filename |-> manifest[i].filename, bytes |-> items[i].bytes]]

\* C13: a fetch that loads a manifest reads every entry's file, and a fetch that
\* answers 200 returns, for a manifest of more than one entry, one application/zip
\* body with one member per entry (the entry's file name and the bytes read from its
\* path), and for a manifest of one entry that file's bytes alone under the
\* entry's own content type.
C13_ArchiveOrSingleFile ==
    [][/\ \A f \in Fetchers, j \in JobIds :
            (FetchBegin(f, j) /\ fetch'[f].pc = "loaded") =>
                /\ Len(fetch'[f].items) = Len(results[j].value)
                /\ \A i \in 1..Len(results[j].value) :
                    /\ IsFile(files, results[j].value[i].path)
                    /\ fetch'[f].items[i].bytes = files[results[j].value[i].path].data
       /\ \A f \in Fetchers :
            (FetchFinish(f) /\ out'.response.status_code = 200) =>
                LET manifest == results[fetch[f].job].value
                IN  IF Len(manifest) > 1
                    THEN /\ out'.response.media_type = "application/zip"
                         /\ out'.response.body = Bundle(manifest, fetch[f].items)
                    ELSE /\ out'.response.media_type = manifest[1].content_type
                         /\ out'.response.body = <<fetch[f].items[1].bytes>>]_vars

\* C13 witness: a job of two images was fetched and answered with an archive of
\* its two files
C13_Witness ==
    /\ out.response.status_code = 200
    /\ out.response.media_type = "application/zip"
    /\ Len(out.response.body) = 2
    /\ out.response.body[1].filename = "a_blurred.jpg"
    /\ out.response.body[2].filename = "b_blurred.jpg"
    /\ out.response.body[1].bytes # out.response.body[2].bytes

\* C15: once the stop signal is set, the cleanup loop ends and the lifespan, which
\* awaits it, goes on to shut the application down.
C15_StopLeadsToShutdown == stop ~> (reaper.pc = "exited" /\ life = "down")

\* C16: no error raised inside a sweep ends the cleanup loop: the cleanup task is
\* never finished by an exception.
C16_SweepErrorsNeverEndLoop == reaper.pc # "crashed"

----------------------------------------------------------------------------
(* purge_old_files on an arbitrary store, with nothing else running *)

SweepDirs == {<<"d1">>, <<"d1", "sub">>, <<"d2">>}

SweepFiles == {<<"old.jpg">>, <<"new.jpg">>, <<"d1", "a_blurred.jpg">>,
               <<"d1", "sub", "b_blurred.jpg">>}

SweepInit ==
    /\ dirs \in {{}} \cup {ds \cup {Root} : ds \in {x \in SUBSET SweepDirs :
                                            \A d \in x : Parent(d) \in x \cup {Root}}}
    /\ \E fs \in SUBSET SweepFiles :
        /\ \A p \in fs : Parent(p) \in dirs
        /\ files \in [fs -> [age : 0..TtlTicks,
                             data : {[kind |-> "jpeg", src |-> 1, frames |-> 0,
                                      audio |-> FALSE]}]]
    /\ tmp = {}
    /\ results = [j \in JobIds |-> NoResult]
    /\ job = [j \in JobIds |-> JobFree]
    /\ fetch = [f \in Fetchers |-> FetchIdle]
    /\ stats = [k \in DEFAULT_KEYS |-> 0]
    /\ reaper = lifespan_start(StorageCleanupIntervalMinutes)
    /\ stop = FALSE
    /\ resp = Error(0, "")
    /\ out = NoAnswer
    /\ pre = NoStore
    /\ hist = NoHistory
    /\ visitors = {}
    /\ merge = NoMerge
    /\ life = "up"
    /\ frame = NoFrame

SweepSpec == SweepInit /\ [][Sweep]_vars

\* every file operation and every rmdir of the sweep is done: removed is returned next
SweepDone == reaper.pc = "dirs" /\ reaper.left = <<>>

\* C6: when a sweep has finished, the files left are exactly the files it found
\* whose age was below the TTL, unchanged, and the count it returns is the number
\* of files it found whose age was at least the TTL.
C6_SweepDeletesExpired ==
    SweepDone =>
        /\ DOMAIN files = {p \in DOMAIN pre.files : pre.files[p].age < TtlTicks}
        /\ \A p \in DOMAIN files : files[p] = pre.files[p]
        /\ reaper.removed = Cardinality({p \in DOMAIN pre.files : pre.files[p].age >= TtlTicks})

\* C6 witness: the test's store, one expired and one fresh file, swept: count 1
C6_Witness ==
    /\ SweepDone
    /\ DOMAIN pre.files = {<<"old.jpg">>, <<"new.jpg">>}
    /\ pre.files[<<"old.jpg">>].age >= TtlTicks
    /\ pre.files[<<"new.jpg">>].age < TtlTicks
    /\ DOMAIN files = {<<"new.jpg">>}
    /\ reaper.removed = 1

IsUnder(p, d) == Len(p) > Len(d) /\ SubSeq(p, 1, Len(d)) = d

\* C7: when a sweep has finished, a directory it found under the root is left
\* exactly if a file is left somewhere below it, and the root is left.
C7_SweepRemovesEmptyDirs ==
    SweepDone =>
        /\ Root \in dirs
        /\ dirs \subseteq pre.dirs
        /\ \A d \in pre.dirs \ {Root} :
            d \in dirs <=> \E p \in DOMAIN files : IsUnder(p, d)

\* C7 witness: a directory and its subdirectory both became empty and both are gone,
\* while a directory that holds a fresh file is left
C7_Witness ==
    /\ SweepDone
    /\ {<<"d1">>, <<"d1", "sub">>} \subseteq pre.dirs
    /\ <<"d1", "sub", "b_blurred.jpg">> \in DOMAIN pre.files
    /\ <<"d1">> \notin dirs /\ <<"d1", "sub">> \notin dirs
    /\ <<"new.jpg">> \in DOMAIN files
    /\ Root \in dirs

----------------------------------------------------------------------------
(* the worker tasks alone: WorkJobs queued jobs run side by side under every
   combination of the two video settings, with no sweep and no fetch *)

WorkJobs == 2

Workers == 1..WorkJobs

\* an upload of job j; its bytes carry the job and the position in the request
WorkImage(j, i, stem, ok) ==
    Upload(stem, "jpg", "image/jpeg", Data("jpg", FALSE, ok, 0, 0, 0, <<j, i>>))

WorkVideo(j, ok, nframes, fps) ==
    Upload("a", "mp4", "video/mp4", Data("mp4", FALSE, ok, nframes, fps, 0, <<j, 1>>))

QueuedJob(kind, ups, opts) ==
    [JobFree EXCEPT !.state = "queued", !.kind = kind, !.items = _encode_uploads(ups),
                    !.opts = opts]

WorkImageJobs(j) ==
    {QueuedJob("image", ups, JobFree.opts) :
        ups \in {<<WorkImage(j, 1, "a", TRUE)>>,
                 <<WorkImage(j, 1, "a", TRUE), WorkImage(j, 2, "b", TRUE)>>,
                 <<WorkImage(j, 1, "a", TRUE), WorkImage(j, 2, "a", TRUE)>>,
                 <<WorkImage(j, 1, "a", TRUE), WorkImage(j, 2, "a", FALSE)>>}}

WorkVideoJobs(j) ==
    {QueuedJob("video", <<WorkVideo(j, ok, n, fps)>>, VideoOptions(a, h)) :
        ok \in BOOLEAN, n \in {0, MaxFrames}, fps \in VideoFps,
        a \in BOOLEAN, h \in BOOLEAN}

\* the first job is any job; the others take the same file names as the first
WorkQueue(j) ==
    IF j = 1
    THEN WorkImageJobs(j) \cup WorkVideoJobs(j)
    ELSE {QueuedJob("image", <<WorkImage(j, 1, "a", TRUE)>>, JobFree.opts),
          QueuedJob("video", <<WorkVideo(j, TRUE, MaxFrames, 0)>>, JobFree.opts)}

WorkInit ==
    /\ dirs = {}
    /\ files = NoFiles
    /\ tmp = {}
    /\ results = [j \in Workers |-> NoResult]
    /\ job \in {q \in [Workers -> UNION {WorkQueue(j) : j \in Workers}] :
                    \A j \in Workers : q[j] \in WorkQueue(j)}
    /\ fetch = [f \in Fetchers |-> FetchIdle]
    /\ stats = [k \in DEFAULT_KEYS |-> 0]
    /\ reaper = lifespan_start(StorageCleanupIntervalMinutes)
    /\ stop = FALSE
    /\ resp = Error(0, "")
    /\ out = NoAnswer
    /\ pre = NoStore
    /\ hist = NoHistory
    /\ visitors = {}
    /\ merge = NoMerge
    /\ life = "up"
    /\ frame = NoFrame

WorkNext == \E j \in Workers : Worker(j)

WorkSpec == WorkInit /\ [][WorkNext]_vars

\* the paths job j has put in its manifest so far
ManifestPaths(j) ==
    {job[j].acc[i].path : i \in 1..Len(job[j].acc)}
    \cup {results[j].value[i].path : i \in 1..Len(results[j].value)}

\* C12: every file was written by the job whose directory it lies directly in,
\* every manifest path of a job lies directly in that job's directory, the
\* directory lies directly under the storage root and does not exist before the job
\* starts, and two jobs have different directories and no manifest path in common.
C12_JobsKeepToOwnDirs ==
    /\ \A p \in DOMAIN files :
        /\ files[p].data.src[1] \in Workers
        /\ Parent(p) = TaskDir(files[p].data.src[1])
    /\ \A j \in Workers :
        /\ Parent(TaskDir(j)) = Root
        /\ \A p \in ManifestPaths(j) : Parent(p) = TaskDir(j)
        /\ job[j].state = "queued" => TaskDir(j) \notin dirs
        /\ \A k \in Workers \ {j} :
            /\ TaskDir(j) # TaskDir(k)
            /\ ManifestPaths(j) \cap ManifestPaths(k) = {}

\* C12 witness: two jobs given the same file name have both finished, each with its
\* artifact in its own directory
C12_Witness ==
    /\ \A j \in Workers : results[j].kind = "ok" /\ Len(results[j].value) = 1
    /\ results[1].value[1].filename = results[2].value[1].filename
    /\ results[1].value[1].path # results[2].value[1].path
    /\ \A j \in Workers : IsFile(files, results[j].value[1].path)

\* job j is past the frame loop: the external tool runs next or has run
AfterFrames(j) == job[j].pc \in {"vmux", "vtempdel", "vreplace", "vunlink"}

\* the file at the job's output path, once the tool and the rename are done
Delivered(j) == files[OutputPath(j)].data

\* C18: under every setting of preserve_audio and transcode_h264 and every outcome
\* of ffmpeg, a video job that has written its frames does not fail in the tool
\* phase; when that phase is over the temporary file is gone and output_path holds
\* a video of the frames written: with the audio and codec asked for if the tool
\* succeeded, muted and untranscoded otherwise; and a finished video job's
\* manifest names an existing video file.
C18_ToolFailureIsNotFatal ==
    /\ [][\A j \in Workers : AfterFrames(j) => results'[j].kind # "err"]_vars
    /\ [](\A j \in Workers :
            /\ job[j].pc = "vunlink" =>
                /\ IsFile(files, OutputPath(j))
                /\ ~IsFile(files, TempOutput(j))
                /\ Delivered(j).kind = "mp4"
                /\ Delivered(j).frames = job[j].frames /\ job[j].frames >= 1
                /\ Delivered(j).audio = (job[j].muxed /\ job[j].opts.preserve_audio)
                /\ Delivered(j).h264 = (job[j].muxed /\ job[j].opts.transcode_h264)
            /\ (job[j].kind = "video" /\ results[j].kind = "ok") =>
                /\ Len(results[j].value) = 1
                /\ IsFile(files, results[j].value[1].path)
                /\ files[results[j].value[1].path].data.kind = "mp4"
                /\ files[results[j].value[1].path].data.frames >= 1)

\* C18 witness: audio was to be preserved, ffmpeg was missing or failed, and the
\* job has finished with the muted, untranscoded video at its output path
C18_Witness ==
    \E j \in Workers :
        /\ job[j].kind = "video" /\ job[j].opts.preserve_audio
        /\ results[j].kind = "ok"
        /\ IsFile(files, results[j].value[1].path)
        /\ ~files[results[j].value[1].path].data.audio
        /\ ~files[results[j].value[1].path].data.h264

\* the source a video job was given, as the worker decodes it
Source(j) == _decode_payload_item(job[j].items[1]).raw

CouldNotOpen == "ValueError: Could not open video file."

NoReadableFrames == "ValueError: Video contains no readable frames."

NoVideoWriter == "ValueError: Could not initialize video writer."

----------------------------------------------------------------------------
(* the application under either setting of the cleanup interval *)

\* STORAGE_CLEANUP_INTERVAL_MINUTES: 0 as the tests set it, or the default
CleanupIntervals == {0, StorageCleanupIntervalMinutes}

ConfigInit == \E minutes \in CleanupIntervals : Start(minutes)

ConfigSpec == ConfigInit /\ [][Next]_vars

\* C14: with a cleanup interval of zero there is no cleanup task at any time, no
\* sweep has taken a snapshot of the store or is at any of its steps, and once the
\* stop signal is set the lifespan can go on to shut the broker down at once or
\* has done so.
C14_IntervalZeroNoReaper ==
    reaper.interval = 0 =>
        /\ reaper.pc = "off"
        /\ reaper.removed = 0
        /\ pre = NoStore
        /\ life # "failed"
        /\ stop => (life = "down" \/ ENABLED LifespanExit)

\* C14 witness: the interval is zero, a file older than the TTL is still in the
\* store, and the application has shut down
C14_Witness ==
    /\ reaper.interval = 0
    /\ \E p \in DOMAIN files : files[p].age >= TtlTicks
    /\ stop
    /\ life = "down"

----------------------------------------------------------------------------
(* the stats endpoint beside the job endpoints and the workers, with the cleanup
   loop disabled *)

MaxVisitors == 2

\* the values uuid4 may return for a visitor
VisitorIds == 1..MaxVisitors

NoCookie == 0

StatsLoaded(data, cookie) ==
    [status_code |-> 200, code |-> "stats", data |-> data, set_cookie |-> cookie]

\* GET /stats: a request without the visitor cookie is given a new visitor id,
\* which is recorded; the counters are read and the cookie is set if it was absent
StatsRead(cookie, uuid) ==
    /\ ~stop
    /\ LET visitor_id == IF cookie = NoCookie THEN uuid ELSE cookie
           rec == IF cookie = NoCookie
                  THEN record_visitor(visitors, stats, visitor_id)
                  ELSE [visitors |-> visitors, stats |-> stats]
       IN  /\ visitors' = rec.visitors
           /\ stats' = rec.stats
           /\ resp' = StatsLoaded(get_stats(rec.stats),
                                  IF cookie = NoCookie THEN visitor_id ELSE NoCookie)
    /\ UNCHANGED <<dirs, files, tmp, results, job, fetch, reaper, stop, out, pre, hist,
                   merge, life, frame>>

StatsNext ==
    \/ \E ups \in ImageRequests : SubmitBlur(ups)
    \/ \E up \in VideoRequests : SubmitBlurVideo(up)
    \/ \E f \in Fetchers, j \in JobIds : FetchBegin(f, j)
    \/ \E f \in Fetchers : FetchFinish(f)
    \/ \E j \in JobIds : Worker(j)
    \/ \E cookie \in {NoCookie} \cup VisitorIds, uuid \in VisitorIds : StatsRead(cookie, uuid)

StatsSpec == Start(0) /\ [][StatsNext]_vars

\* the six counters the spec names
StatNames ==
    {"total_requests", "total_tasks", "total_images", "total_videos",
     "total_video_seconds", "total_visitors"}

\* C17: in every step no counter of the stats table disappears or decreases, the
\* table holds no counter beside the six names, the visitors table only grows, and
\* total_visitors grows by exactly the number of visitor ids the step recorded
\* for the first time.
C17_CountersOnlyGrow ==
    [][/\ DOMAIN stats \subseteq DOMAIN stats'
       /\ \A k \in DOMAIN stats : stats'[k] >= stats[k]
       /\ DOMAIN stats' \subseteq StatNames
       /\ visitors \subseteq visitors'
       /\ stats'["total_visitors"] - stats["total_visitors"]
            = Cardinality(visitors' \ visitors)]_vars

\* C17 witness: a video was submitted, processed and fetched, and the stats were
\* read by two new visitors and again by one of them: every counter but
\* total_images has been incremented
C17_Witness ==
    /\ visitors = VisitorIds
    /\ stats["total_visitors"] = MaxVisitors
    /\ resp.code = "stats" /\ resp.set_cookie = NoCookie
    /\ stats["total_requests"] >= 1 /\ stats["total_tasks"] >= 1
    /\ "total_videos" \in DOMAIN stats /\ stats["total_videos"] >= 1
    /\ stats["total_video_seconds"] >= 0

----------------------------------------------------------------------------
(* _merge_overlaps on every pool of boxes, applied to a pool and then to its own
   result *)

MaxBoxes == 3

MaxCoord == 2

MaxSide == 2

Boxes == {Box(x, y, w, h) : x \in 0..MaxCoord, y \in 0..MaxCoord,
                            w \in 1..MaxSide, h \in 1..MaxSide}

Pools == UNION {[1..n -> Boxes] : n \in 0..MaxBoxes}

MergeInit ==
    /\ dirs = {}
    /\ files = NoFiles
    /\ tmp = {}
    /\ results = [j \in JobIds |-> NoResult]
    /\ job = [j \in JobIds |-> JobFree]
    /\ fetch = [f \in Fetchers |-> FetchIdle]
    /\ stats = [k \in DEFAULT_KEYS |-> 0]
    /\ reaper = lifespan_start(StorageCleanupIntervalMinutes)
    /\ stop = FALSE
    /\ resp = Error(0, "")
    /\ out = NoAnswer
    /\ pre = NoStore
    /\ hist = NoHistory
    /\ visitors = {}
    /\ merge \in {[NoMerge EXCEPT !.pool = pool] : pool \in Pools}
    /\ life = "up"
    /\ frame = NoFrame

MergeNext == MergeOnce \/ MergeTwice

MergeSpec == MergeInit /\ [][MergeNext]_vars

SetOf(boxes) == {boxes[n] : n \in 1..Len(boxes)}

\* C20: the merge of a merge's result returns the same set of boxes as the first
\* merge, and as many of them.
C20_MergeIdempotent ==
    merge.pc = "twice" =>
        /\ SetOf(merge.twice) = SetOf(merge.once)
        /\ Len(merge.twice) = Len(merge.once)

\* C20 witness: a pool of three boxes lost one to the first merge, and the
\* second merge of the two boxes left returned both
C20_Witness ==
    /\ merge.pc = "twice"
    /\ Len(merge.pool) = 3
    /\ Len(merge.once) = 2
    /\ SetOf(merge.twice) = SetOf(merge.once)
    /\ Cardinality(SetOf(merge.twice)) = 2

\* how often box b occurs in a list of boxes
Occurrences(boxes, b) == Cardinality({n \in 1..Len(boxes) : boxes[n] = b})

\* the plain area of a box of width w and height h, and of what two boxes share
PlainArea(b) == b.w * b.h

PlainIntersection(a, b) ==
    Greatest(0, Least(a.x + a.w, b.x + b.w) - Greatest(a.x, b.x))
    * Greatest(0, Least(a.y + a.h, b.y + b.h) - Greatest(a.y, b.y))

\* the overlap ratio of two boxes against the smaller one exceeds the threshold:
\* as the code measures areas (every side one longer), or as plain areas
OverlapsTooMuch(a, b) ==
    \/ Intersection(a, b) * OverlapThresh.den
         > OverlapThresh.num * Least(Area(a), Area(b))
    \/ PlainIntersection(a, b) * OverlapThresh.den
         > OverlapThresh.num * Least(PlainArea(a), PlainArea(b))

\* C21: of two boxes at different places of the pool whose overlap ratio against
\* the smaller one exceeds 0.2, the merge returns at most one: not both when they
\* differ, and at most one copy when they are the same box.
C21_OverlappingPairNotBothKept ==
    merge.pc # "idle" =>
        \A i, k \in 1..Len(merge.pool) :
            (i # k /\ OverlapsTooMuch(merge.pool[i], merge.pool[k])) =>
                IF merge.pool[i] = merge.pool[k]
                THEN Occurrences(merge.once, merge.pool[i]) <= 1
                ELSE ~(/\ Occurrences(merge.once, merge.pool[i]) >= 1
                       /\ Occurrences(merge.once, merge.pool[k]) >= 1)

\* C21 witness: a small box inside a larger one and a box apart from both were
\* merged: the small box is gone, the other two are returned
C21_Witness ==
    /\ merge.pc = "once"
    /\ Len(merge.pool) = 3 /\ Len(merge.once) = 2
    /\ \E i, k \in 1..3 :
        /\ Area(merge.pool[i]) > Area(merge.pool[k])
        /\ Intersection(merge.pool[i], merge.pool[k]) = Area(merge.pool[k])
        /\ Occurrences(merge.once, merge.pool[i]) = 1
        /\ Occurrences(merge.once, merge.pool[k]) = 0

\* C28: the merge returns boxes of the pool, no box more often than the pool holds
\* it, among them a box of the largest area of a non-empty pool, and every box
\* it returns less often than the pool holds it shares more than 0.2 of its own
\* area with a returned box at least as large.
C28_DiscardedOverlapsRetained ==
    merge.pc # "idle" =>
        /\ \A n \in 1..Len(merge.once) :
            Occurrences(merge.once, merge.once[n]) <= Occurrences(merge.pool, merge.once[n])
        /\ merge.pool # <<>> =>
            \E n \in 1..Len(merge.once) :
                \A i \in 1..Len(merge.pool) :
                    PlainArea(merge.once[n]) >= PlainArea(merge.pool[i])
        /\ \A i \in 1..Len(merge.pool) :
            Occurrences(merge.once, merge.pool[i]) < Occurrences(merge.pool, merge.pool[i]) =>
                \E n \in 1..Len(merge.once) :
                    /\ PlainArea(merge.once[n]) >= PlainArea(merge.pool[i])
                    /\ PlainIntersection(merge.once[n], merge.pool[i]) * OverlapThresh.den
                         > OverlapThresh.num * PlainArea(merge.pool[i])

----------------------------------------------------------------------------
(* apply_blur over small frames and boxes inside, across and beyond them *)

FrameSide == 3

MaxShift == 2

MaxFaceSide == 5

Faces == {Box(x, y, w, h) : x \in (0 - MaxShift)..FrameSide, y \in (0 - MaxShift)..FrameSide,
                            w \in 1..MaxFaceSide, h \in 1..MaxFaceSide}

\* no box, one box, or one box followed by the box of the frame's first pixel
FaceLists == {<<>>} \cup {<<b>> : b \in Faces} \cup {<<b, Box(0, 0, 1, 1)>> : b \in Faces}

BlurInit ==
    /\ dirs = {}
    /\ files = NoFiles
    /\ tmp = {}
    /\ results = [j \in JobIds |-> NoResult]
    /\ job = [j \in JobIds |-> JobFree]
    /\ fetch = [f \in Fetchers |-> FetchIdle]
    /\ stats = [k \in DEFAULT_KEYS |-> 0]
    /\ reaper = lifespan_start(StorageCleanupIntervalMinutes)
    /\ stop = FALSE
    /\ resp = Error(0, "")
    /\ out = NoAnswer
    /\ pre = NoStore
    /\ hist = NoHistory
    /\ visitors = {}
    /\ merge = NoMerge
    /\ life = "up"
    /\ frame \in {[NoFrame EXCEPT !.width = width, !.height = height, !.faces = faces] :
                    width \in 1..FrameSide, height \in 1..FrameSide, faces \in FaceLists}

BlurNext == ApplyBlurEnter \/ ApplyBlurFace \/ ApplyBlurReturn

BlurSpec == BlurInit /\ [][BlurNext]_vars

\* the box grown by 20% of its width and height on each side, clamped to the
\* bounds of the frame
PaddedRegion(width, height, box) ==
    {p \in Pixels(width, height) :
        /\ p[1] >= Greatest(0, box.x - Scaled(box.w, 20))
        /\ p[1] < Least(width, box.x + box.w + Scaled(box.w, 20))
        /\ p[2] >= Greatest(0, box.y - Scaled(box.h, 20))
        /\ p[2] < Least(height, box.y + box.h + Scaled(box.h, 20))}

\* C22: apply_blur changes no pixel outside every box's padded region, boxes
\* beyond the frame included, and changes nothing when there is no box.
C22_ChangesOnlyPaddedRegions ==
    /\ \A p \in frame.changed :
        \E n \in 1..Len(frame.faces) :
            p \in PaddedRegion(frame.width, frame.height, frame.faces[n])
    /\ frame.faces = <<>> => frame.changed = {}

\* what does hold of apply_blur: the claim for the boxes that reach into the
\* frame, and nothing is changed when there is no box
C22_HoldsOfBoxesInTheFrame ==
    /\ (\A n \in 1..Len(frame.faces) :
            PaddedRegion(frame.width, frame.height, frame.faces[n]) # {})
        => \A p \in frame.changed :
              \E n \in 1..Len(frame.faces) :
                  p \in PaddedRegion(frame.width, frame.height, frame.faces[n])
    /\ frame.faces = <<>> => frame.changed = {}

----------------------------------------------------------------------------
(* One worker on one video: sources of up to MaxSourceFrames frames, each frame
   rate limit and each detection interval *)

MaxSourceFrames == 7

MaxDetectEvery == 3

\* video_max_fps (at least 1): 8, the default, and one no source exceeds
PaceMaxFps == {8, VideoMaxFps, 30}

PaceJobs ==
    {QueuedJob("video", <<WorkVideo(1, TRUE, n, fps)>>,
               VideoPace(VideoOptions(a, h), max_fps, detect_every_n)) :
        n \in 0..MaxSourceFrames, fps \in VideoFps, max_fps \in PaceMaxFps,
        detect_every_n \in 1..MaxDetectEvery, a \in BOOLEAN, h \in BOOLEAN}
    \cup {QueuedJob("image", <<WorkImage(1, 1, "a", TRUE)>>, JobFree.opts)}

PaceInit ==
    /\ dirs = {}
    /\ files = NoFiles
    /\ tmp = {}
    /\ results = [j \in JobIds |-> NoResult]
    /\ job \in {[j \in JobIds |-> IF j = 1 THEN q ELSE JobFree] : q \in PaceJobs}
    /\ fetch = [f \in Fetchers |-> FetchIdle]
    /\ stats = [k \in DEFAULT_KEYS |-> 0]
    /\ reaper = lifespan_start(StorageCleanupIntervalMinutes)
    /\ stop = FALSE
    /\ resp = Error(0, "")
    /\ out = NoAnswer
    /\ pre = NoStore
    /\ hist = NoHistory
    /\ visitors = {}
    /\ merge = NoMerge
    /\ life = "up"
    /\ frame = NoFrame

PaceNext == \E j \in JobIds : Worker(j)

PaceSpec == PaceInit /\ [][PaceNext]_vars

\* the job's source is faster than the frame rate limit that is set
Limited(j) ==
    /\ job[j].kind = "video" /\ job[j].state = "running"
    /\ job[j].pc \in {"vwriter", "vfirst", "vloop"} \/ AfterFrames(j)
    /\ job[j].opts.max_fps # 0
    /\ SourceFps(Source(j)) > job[j].opts.max_fps

Distance(a, b) == IF a >= b THEN a - b ELSE b - a

\* C23: under a frame rate limit below the source's rate the stride is the
\* integer nearest to source fps / max_fps and at least 1, every kept frame
\* takes stride frames of the source, output_fps is source fps / stride, and
\* the frames written are within one of floor(N / stride); 24 fps under a limit
\* of 8 gives the stride 3 and 8 fps.
C23_StrideAndFrameCount ==
    \A j \in JobIds :
        Limited(j) =>
            LET fps == SourceFps(Source(j))
                max_fps == job[j].opts.max_fps
                stride == job[j].stride
                total == Source(j).nframes
            IN  /\ stride >= 1
                /\ 2 * Distance(fps, stride * max_fps) <= max_fps
                /\ job[j].output_fps.num = fps /\ job[j].output_fps.den = stride
                /\ job[j].pc = "vloop" =>
                      total - job[j].left = 1 + (job[j].frames - 1) * stride
                /\ AfterFrames(j) =>
                      Distance(job[j].frames, total \div stride) <= 1
                /\ (fps = 24 /\ max_fps = 8) =>
                      stride = 3 /\ job[j].output_fps.num = 8 * job[j].output_fps.den

\* C23 witness: a source of 7 frames at 30 fps under a limit of 8 was read with
\* the stride 4 and two frames were written
C23_Witness ==
    /\ Limited(1) /\ AfterFrames(1)
    /\ SourceFps(Source(1)) = 30 /\ job[1].opts.max_fps = 8
    /\ Source(1).nframes = 7
    /\ job[1].stride = 4
    /\ job[1].frames = 2

CouldNotDecode == "ValueError: Could not decode image bytes"

Whole(manifest, response) ==
    /\ response.status_code = 200
    /\ IF Len(ToLoad(manifest)) = 1
       THEN /\ Len(response.body) = 1
            /\ response.body[1].kind = (IF IsVideo(manifest) THEN "mp4" ELSE "jpeg")
       ELSE /\ Len(response.body) = Len(manifest)
            /\ \A i \in 1..Len(manifest) :
                /\ response.body[i].filename = manifest[i].filename
                /\ response.body[i].bytes.kind = "jpeg"

AllProcessed(j) ==
    /\ job[j].state = "running" /\ job[j].kind = "image"
    /\ job[j].pc = "item" /\ job[j].idx > Len(job[j].items)

\* C26: when every item of an image job was processed, the manifest has one
\* entry per item in payload order, no two entries name the same file, and
\* each entry's file holds the result of its own item.
C26_EachEntryItsOwnFile ==
    \A j \in Workers :
        AllProcessed(j) =>
            /\ Len(job[j].acc) = Len(job[j].items)
            /\ \A i, k \in 1..Len(job[j].acc) :
                i # k => job[j].acc[i].path # job[j].acc[k].path
            /\ \A i \in 1..Len(job[j].acc) :
                /\ IsFile(files, job[j].acc[i].path)
                /\ files[job[j].acc[i].path].data
                     = process_image_blur(_decode_payload_item(job[j].items[i]).raw)

\* what does hold: one entry per item in payload order, each naming the file
\* that _safe_output_name gives its item, and that file holds the result of the
\* last item of the payload with that name
C26_LastOfEachNameKept ==
    \A j \in Workers :
        AllProcessed(j) =>
            /\ Len(job[j].acc) = Len(job[j].items)
            /\ \A i \in 1..Len(job[j].acc) :
                LET name(n) == _safe_output_name(_decode_payload_item(job[j].items[n]).filename,
                                                 n - 1)
                    last == CHOOSE n \in 1..Len(job[j].items) :
                                /\ name(n) = name(i)
                                /\ \A m \in 1..Len(job[j].items) : name(m) = name(i) => m <= n
                IN  /\ job[j].acc[i].filename = name(i)
                    /\ job[j].acc[i].path = TaskDir(j) \o <<name(i)>>
                    /\ IsFile(files, job[j].acc[i].path)
                    /\ files[job[j].acc[i].path].data
                         = process_image_blur(_decode_payload_item(job[j].items[last]).raw)

\* the places in the job's events where op was done to kept frame i
Places(j, op, i) ==
    {p \in 1..Len(job[j].events) : job[j].events[p].op = op /\ job[j].events[p].frame = i}

\* the frame loop of the job is running or has ended
InFrames(j) ==
    /\ job[j].kind = "video" /\ job[j].state = "running"
    /\ job[j].pc = "vloop" \/ AfterFrames(j)

\* C27: the kept frames are taken in order, one at a time: each is read once,
\* detection runs on it exactly when its index is a multiple of detect_every_n
\* (index 0 included), it is blurred once with the detection set of the latest
\* such frame, and written once, after its blur and before the next frame is read.
C27_FramesInOrderOneAtATime ==
    \A j \in JobIds :
        InFrames(j) =>
            LET every == job[j].opts.detect_every_n
            IN  /\ \A p \in 1..Len(job[j].events) : job[j].events[p].frame < job[j].frames
                /\ \A i \in 0..(job[j].frames - 1) :
                    /\ Cardinality(Places(j, "read", i)) = 1
                    /\ Cardinality(Places(j, "blur", i)) = 1
                    /\ Cardinality(Places(j, "write", i)) = 1
                    /\ Cardinality(Places(j, "detect", i)) = (IF i % every = 0 THEN 1 ELSE 0)
                    /\ \A r \in Places(j, "read", i), b \in Places(j, "blur", i),
                          w \in Places(j, "write", i) :
                        /\ r < b /\ b < w
                        /\ \A d \in Places(j, "detect", i) : r < d /\ d < b
                        /\ job[j].events[b].faces = i - (i % every)
                        /\ \A next \in Places(j, "read", i + 1) : w < next

\* C27 witness: seven frames were kept with detection on every third; frame 5
\* was blurred with the boxes found on frame 3 and frame 6 with its own
C27_Witness ==
    /\ InFrames(1) /\ AfterFrames(1)
    /\ job[1].opts.detect_every_n = 3
    /\ job[1].frames = 7
    /\ \E b \in Places(1, "blur", 5) : job[1].events[b].faces = 3
    /\ \E b \in Places(1, "blur", 6) : job[1].events[b].faces = 6
    /\ Places(1, "detect", 4) = {}

\* C29: a fetch that finds a file of the manifest gone is answered
\* result_missing (410) and changes nothing: no file is deleted, no directory
\* removed, no counter of the stats raised, and nothing is loaded.
C29_MissingFetchChangesNothing ==
    [][\A f \in Fetchers, j \in JobIds :
        (/\ FetchBegin(f, j)
         /\ results[j].kind = "ok" /\ results[j].value # <<>>
         /\ Missing(files, ToLoad(results[j].value))) =>
            /\ out'.response = ResultMissingError
            /\ files' = files /\ dirs' = dirs /\ tmp' = tmp
            /\ stats' = stats /\ visitors' = visitors
            /\ results' = results /\ job' = job /\ fetch' = fetch]_vars

\* C29 witness: a fetch found one file of a job gone while another file of the
\* job and the job's directory were still there, and was answered 410
C29_Witness ==
    /\ out.found = "ok" /\ ~out.present
    /\ out.response = ResultMissingError
    /\ \E i \in 1..Len(results[out.job].value) :
        /\ IsFile(files, results[out.job].value[i].path)
        /\ Parent(results[out.job].value[i].path) \in dirs
    /\ \A k \in DEFAULT_KEYS \ {"total_requests", "total_tasks"} : stats[k] = 0

\* C30: a sweep that runs while a job executes, also between the creation of
\* the job's still empty directory and the write of its first file, never makes
\* the job fail: no write of the job finds its directory or its file gone.
C30_SweepNeverFailsAJob ==
    \A j \in JobIds : results[j].error # "FileNotFoundError"

====
